---- MODULE Spec2Model ----
(***************************************************************************)
(* State-machine model of the DAG canvas editor (pat/app/dag/components):  *)
(* dag.ts (createsCycle), GraphEditor.tsx (the editor component and its    *)
(* handlers) and storage.ts.                                               *)
(*                                                                         *)
(* JavaScript values are encoded as follows.                               *)
(*   - an optional field is <<>> when undefined and <<v>> when it holds v; *)
(*   - node objects live in a heap `objs` (object identity -> fields) and  *)
(*     every array of nodes (the live array, the arrays captured by an     *)
(*     undo entry or by the closure of a pending sendToPat call) is a      *)
(*     sequence of object identities, so that Object.assign and n.x = ...  *)
(*     on a shared object are seen through every array that holds it;      *)
(*   - edge objects are never written after creation and are plain records.*)
(***************************************************************************)
EXTENDS Integers, Sequences, FiniteSets, TLC

Undef == <<>>
Some(v) == <<v>>
IsSome(o) == o # <<>>
Val(o) == o[1]

Range(s) == {s[i] : i \in 1..Len(s)}

\* the element of a one-element set
Only(S) == CHOOSE r \in S : TRUE

\* F of the value of v, worked out once however often F uses it
Bind(v, F(_)) == Only({F(x) : x \in {v}})

Min2(a, b) == IF a <= b THEN a ELSE b
Max2(a, b) == IF a >= b THEN a ELSE b

(***************************************************************************)
(* types.ts: DagNode, DagEdge, Viewport                                    *)
(***************************************************************************)
DagNode(id, title, x, y, description, score, tags) ==
    [id |-> id, title |-> title, x |-> x, y |-> y,
     description |-> description, score |-> score, tags |-> tags]

DagEdge(id, source, target) == [id |-> id, source |-> source, target |-> target]

\* zoom is kept in permille (1000 is zoom 1).
Viewport(x, y, zoom) == [x |-> x, y |-> y, zoom |-> zoom]

(***************************************************************************)
(* dag.ts: createsCycle.  The explicit-stack search of lines 14-24,        *)
(* including the falsy test `if (!cur) continue` (the empty string is      *)
(* falsy) that precedes the comparison with source.                        *)
(***************************************************************************)
\* a variant of adjOf that follows the edges backwards
adjOfReversed(edges, cur) ==
    LET into == SelectSeq(edges, LAMBDA e : e.target = cur)
    IN [i \in 1..Len(into) |-> into[i].source]

adjOf(edges, cur) ==
    LET out == SelectSeq(edges, LAMBDA e : e.source = cur)
    IN [i \in 1..Len(out) |-> out[i].target]

RECURSIVE cycleSearch(_, _, _, _)
cycleSearch(edges, source, stack0, seen0) ==
    Only({ IF stack = <<>> THEN FALSE
           ELSE LET cur  == stack[Len(stack)]
                    rest == SubSeq(stack, 1, Len(stack) - 1)
                IN IF cur = "" THEN cycleSearch(edges, source, rest, seen)
                   ELSE IF cur = source THEN TRUE
                   ELSE IF cur \in seen THEN cycleSearch(edges, source, rest, seen)
                   ELSE cycleSearch(edges, source, rest \o adjOf(edges, cur),
                                    seen \cup {cur})
           : stack \in {stack0}, seen \in {seen0} })

\* a variant of createsCycle that only refuses self-loops
createsCycleSelfOnly(edges, source, target) == source = target

createsCycle(edges, source, target) ==
    IF source = target THEN TRUE
    ELSE cycleSearch(edges, source, <<target>>, {})

(***************************************************************************)
(* GraphEditor.tsx: uid, clampNumber, ensureId                             *)
(***************************************************************************)
MaxUid == 6

uidName(n) == "u" \o ToString(n)

\* uid() is time plus randomness: an id that occurs nowhere else.  The model
\* takes the first name of the pool u1, u2, ... that is not in `avoid`.
uid(avoid) ==
    uidName(CHOOSE n \in 1..MaxUid :
              /\ uidName(n) \notin avoid
              /\ \A m \in 1..(n-1) : uidName(m) \in avoid)

clampNumber(value, min, max) == Min2(max, Max2(min, value))

\* .replace(/\s+/g, "-").slice(0, 64): the ids of the model are shorter than
\* 64 characters and one of them ("a b") holds whitespace.
replaceWhitespace(s) == IF s = "a b" THEN "a-b" ELSE s

suffixed(base, i) == base \o "-" \o ToString(i)

ensureId(preferred, used, avoid) ==
    LET p    == IF IsSome(preferred) /\ Val(preferred) # "" THEN Val(preferred)
                ELSE uid(avoid)
        base == replaceWhitespace(p)
    IN IF base \notin used THEN base
       ELSE suffixed(base,
              CHOOSE i \in 2..(Cardinality(used) + 2) :
                /\ suffixed(base, i) \notin used
                /\ \A j \in 2..(i-1) : suffixed(base, j) \in used)

(***************************************************************************)
(* Heap helpers: the node objects behind an array of object identities.    *)
(***************************************************************************)
Deref(heap, arr) == [i \in 1..Len(arr) |-> heap[arr[i]]]

IdsOf(heap, arr) == {heap[arr[i]].id : i \in 1..Len(arr)}

newOid(heap) ==
    IF DOMAIN heap = {} THEN 1
    ELSE 1 + (CHOOSE m \in DOMAIN heap : \A k \in DOMAIN heap : k <= m)

\* nextNodes.find((n) => n.id === id): index of the first match, 0 if none.
findIndex(heap, arr, id) ==
    IF \E i \in 1..Len(arr) : heap[arr[i]].id = id
    THEN CHOOSE i \in 1..Len(arr) :
           /\ heap[arr[i]].id = id
           /\ \A j \in 1..(i-1) : heap[arr[j]].id # id
    ELSE 0

(***************************************************************************)
(* GraphEditor.tsx: applyAutoLayout (lines 236-298)                        *)
(***************************************************************************)
\* keys of a Map filled in array order: the distinct ids, first insertion first
RECURSIVE mapKeysFrom(_, _)
mapKeysFrom(ns0, keys0) ==
    Only({ IF ns = <<>> THEN keys
           ELSE mapKeysFrom(Tail(ns),
                            IF Head(ns).id \in Range(keys) THEN keys
                            ELSE Append(keys, Head(ns).id))
           : ns \in {ns0}, keys \in {keys0} })

mapKeys(ns) == mapKeysFrom(ns, <<>>)

RECURSIVE kahnVisit(_, _, _)
\* for (const nxt of adj.get(cur)) { nd = indeg(nxt) - 1; ...; if (nd === 0) queue.push(nxt) }
kahnVisit(next0, indeg0, queue0) ==
    Only({ IF next = <<>> THEN [indeg |-> indeg, queue |-> queue]
           ELSE LET nxt == Head(next)
                    nd  == indeg[nxt] - 1
                IN kahnVisit(Tail(next), [indeg EXCEPT ![nxt] = nd],
                             IF nd = 0 THEN Append(queue, nxt) ELSE queue)
           : next \in {next0}, indeg \in {indeg0}, queue \in {queue0} })

RECURSIVE kahn(_, _, _, _)
kahn(edges, indeg0, queue0, topo0) ==
    Only({ IF queue = <<>> THEN topo
           ELSE LET cur == Head(queue)
                IN IF cur = "" THEN topo          \* if (!cur) break
                   ELSE Bind(kahnVisit(adjOf(edges, cur), indeg, Tail(queue)),
                             LAMBDA r : kahn(edges, r.indeg, r.queue, Append(topo, cur)))
           : indeg \in {indeg0}, queue \in {queue0}, topo \in {topo0} })

RECURSIVE relaxLayer(_, _, _)
relaxLayer(next0, layer0, base) ==
    Only({ IF next = <<>> THEN layer
           ELSE relaxLayer(Tail(next),
                           [layer EXCEPT ![Head(next)] = Max2(layer[Head(next)], base + 1)],
                           base)
           : next \in {next0}, layer \in {layer0} })

RECURSIVE layersOf(_, _, _)
layersOf(edges, topo0, layer0) ==
    Only({ IF topo = <<>> THEN layer
           ELSE layersOf(edges, Tail(topo),
                         relaxLayer(adjOf(edges, Head(topo)), layer, layer[Head(topo)]))
           : topo \in {topo0}, layer \in {layer0} })

\* g.sort((a, b) => a.y - b.y): stable; `g` is a sequence of array positions
insertByY(ns, sorted0, p) ==
    Bind(sorted0,
         LAMBDA sorted :
            \* the entries not greater than p form a prefix of a sorted sequence
            LET k == Cardinality({i \in 1..Len(sorted) : ns[sorted[i]].y <= ns[p].y})
            IN SubSeq(sorted, 1, k) \o <<p>> \o SubSeq(sorted, k + 1, Len(sorted)))

RECURSIVE sortByY(_, _)
sortByY(ns, g0) ==
    Bind(g0, LAMBDA g : IF g = <<>> THEN <<>>
                        ELSE insertByY(ns, sortByY(ns, SubSeq(g, 1, Len(g) - 1)), g[Len(g)]))

\* the nodes of layer l, sorted by y, as array positions
groupOf(ns, layer, l) ==
    sortByY(ns, SelectSeq([i \in 1..Len(ns) |-> i], LAMBDA i : layer[ns[i].id] = l))

\* layers in increasing order; each entry of the result is <<position, rank, layer>>
RECURSIVE layOut(_, _, _, _)
layOut(ns, layer, ls0, acc0) ==
    Only({ IF ls = {} THEN acc
           ELSE Bind(CHOOSE m \in ls : \A k \in ls : m <= k,
                     LAMBDA l :
                        Bind(groupOf(ns, layer, l),
                             LAMBDA g : layOut(ns, layer, ls \ {l},
                                               acc \o [i \in 1..Len(g) |-> <<g[i], i - 1, l>>])))
           : ls \in {ls0}, acc \in {acc0} })

\* laidOut for the node values ns and the edges that join two of them
laidOutOf(ns, valid) ==
    Bind(mapKeys(ns),
         LAMBDA keys :
            LET ids    == Range(keys)
                indeg0 == [id \in ids |->
                             Cardinality({i \in 1..Len(valid) : valid[i].target = id})]
                queue0 == SelectSeq(keys, LAMBDA id : indeg0[id] = 0)
            IN Bind(layersOf(valid, kahn(valid, indeg0, queue0, <<>>), [id \in ids |-> 0]),
                    LAMBDA layer : layOut(ns, layer, {layer[id] : id \in ids}, <<>>)))

\* The result: the new array and the heap with the objects `{ ...n, x, y }`.
placeLaidOut(heap, ns, laidOut, direction, spacingX, spacingY) ==
    LET placed(k) ==
            LET n == ns[laidOut[k][1]]
                i == laidOut[k][2]
                l == laidOut[k][3]
            IN [n EXCEPT !.x = IF direction = "LR" THEN l * spacingX ELSE i * spacingX,
                         !.y = IF direction = "LR" THEN i * spacingY ELSE l * spacingY]
        base    == newOid(heap) - 1
        \* byId2: a later entry of laidOut with the same id replaces an earlier one
        last(id) == CHOOSE k \in 1..Len(laidOut) :
                      /\ ns[laidOut[k][1]].id = id
                      /\ \A j \in (k+1)..Len(laidOut) : ns[laidOut[j][1]].id # id
    IN [nodes |-> [i \in 1..Len(ns) |-> base + last(ns[i].id)],
        heap  |-> [o \in DOMAIN heap \cup {base + k : k \in 1..Len(laidOut)} |->
                     IF o \in DOMAIN heap THEN heap[o] ELSE placed(o - base)]]

applyAutoLayout(heap, nextNodes, nextEdges, direction, spacingX, spacingY) ==
    Bind(Deref(heap, nextNodes),
         LAMBDA ns :
            LET ids   == {ns[i].id : i \in 1..Len(ns)}
                valid == SelectSeq(nextEdges, LAMBDA e : e.source \in ids /\ e.target \in ids)
            IN Bind(laidOutOf(ns, valid),
                    LAMBDA laidOut :
                       placeLaidOut(heap, ns, laidOut, direction, spacingX, spacingY)))

(***************************************************************************)
(* GraphEditor.tsx: CanvasAction (lines 102-109).  One record shape for    *)
(* the seven variants; a field a variant does not carry is undefined.      *)
(***************************************************************************)
CanvasAction(type, id, title, x, y, source, target, direction) ==
    [type |-> type, id |-> id, title |-> title, x |-> x, y |-> y,
     source |-> source, target |-> target, direction |-> direction,
     description |-> Undef, score |-> Undef, tags |-> Undef,
     spacingX |-> Undef, spacingY |-> Undef]

AddNode(id)            == CanvasAction("add_node", id, Undef, Undef, Undef, Undef, Undef, Undef)
UpdateNode(id, title)  == CanvasAction("update_node", Some(id), Some(title), Undef, Undef, Undef, Undef, Undef)
MoveNode(id, x, y)     == CanvasAction("move_node", Some(id), Undef, Some(x), Some(y), Undef, Undef, Undef)
DeleteNode(id)         == CanvasAction("delete_node", Some(id), Undef, Undef, Undef, Undef, Undef, Undef)
AddEdge(id, s, t)      == CanvasAction("add_edge", id, Undef, Undef, Undef, Some(s), Some(t), Undef)
DeleteEdgeById(id)     == CanvasAction("delete_edge", Some(id), Undef, Undef, Undef, Undef, Undef, Undef)
DeleteEdgeByPair(s, t) == CanvasAction("delete_edge", Undef, Undef, Undef, Undef, Some(s), Some(t), Undef)
AutoLayout(direction)  == CanvasAction("auto_layout", Undef, Undef, Undef, Undef, Undef, Undef, direction)

\* a string-valued field read in a comparison: undefined equals no id
strOf(o) == IF IsSome(o) THEN Val(o) ELSE "undefined"
\* `if (act.id)`: a non-empty string
truthy(o) == IsSome(o) /\ Val(o) # ""

\* a JSON number in a field the commands declare as a string, written as a
\* text that no id of the model equals; typeof v === "string" is false of it
NumericId == "#7"
isString(v) == v # NumericId

\* entries of a decoded batch that are no commands: a value that is not an
\* object (a number, a string, null, an array), and an object without a
\* string in its type field
NonObjectEntry == CanvasAction("(not an object)", Undef, Undef, Undef, Undef, Undef, Undef, Undef)
UntypedEntry   == CanvasAction("(no type)", Undef, Undef, Undef, Undef, Undef, Undef, Undef)

\* lines 515-519: the entries sendToPat hands to applyCanvasActions
normalize(entries) ==
    SelectSeq(entries, LAMBDA a : a.type # "(not an object)" /\ a.type # "(no type)")

\* line 227: (preferred || uid()).replace(...) is a TypeError when preferred
\* is truthy and has no replace method
ensureIdThrows(preferred) == truthy(preferred) /\ ~isString(Val(preferred))

(***************************************************************************)
(* GraphEditor.tsx: applyCanvasActions (lines 300-422).  W is the working  *)
(* copy: nextNodes, nextEdges, usedNodeIds, usedEdgeIds and the six        *)
(* counters; heap holds the node objects (writes through findNode reach    *)
(* the objects of the array the copy was sliced from); log records, per    *)
(* command, what the loop did with it.                                     *)
(***************************************************************************)
workingCopy(heap, nodes0, edges0, avoid) ==
    [heap |-> heap, nodes |-> nodes0, edges |-> edges0,
     usedNodeIds |-> IdsOf(heap, nodes0),
     usedEdgeIds |-> {edges0[i].id : i \in 1..Len(edges0)},
     avoid |-> avoid,
     added |-> 0, updated |-> 0, moved |-> 0, deleted |-> 0,
     edgeAdded |-> 0, edgeDeleted |-> 0,
     thrown |-> FALSE,
     log |-> <<>>]

logEntry(W, act, outcome) ==
    [act |-> act, outcome |-> outcome,
     nodeIds |-> IdsOf(W.heap, W.nodes), edges |-> W.edges]

removeAt(s, i) == SubSeq(s, 1, i - 1) \o SubSeq(s, i + 1, Len(s))

doAddNode(W, act, origin) ==
    IF ensureIdThrows(act.id)
    THEN [W EXCEPT !.thrown = TRUE, !.log = Append(@, logEntry(W, act, "threw"))]
    ELSE
    LET id == ensureId(act.id, W.usedNodeIds, W.avoid)
        o  == newOid(W.heap)
        n  == DagNode(id,
                 IF truthy(act.title) THEN Val(act.title) ELSE "New node",
                 IF IsSome(act.x) THEN Val(act.x) ELSE origin.x + 40 * (W.added + 1),
                 IF IsSome(act.y) THEN Val(act.y) ELSE origin.y + 34 * (W.added + 1),
                 act.description, act.score, act.tags)
    IN [W EXCEPT !.usedNodeIds = @ \cup {id},
                 !.avoid = @ \cup {id},
                 !.heap = [p \in DOMAIN W.heap \cup {o} |-> IF p = o THEN n ELSE W.heap[p]],
                 !.nodes = Append(@, o),
                 !.added = @ + 1,
                 !.log = Append(@, logEntry(W, act, "applied"))]

doUpdateNode(W, act) ==
    LET i == findIndex(W.heap, W.nodes, strOf(act.id))
    IN IF i = 0 THEN [W EXCEPT !.log = Append(@, logEntry(W, act, "rejected"))]
       ELSE LET o == W.nodes[i]
                n == W.heap[o]
            IN [W EXCEPT
                  !.heap[o] = [n EXCEPT
                     !.title = IF IsSome(act.title) THEN Val(act.title) ELSE n.title,
                     !.description = IF IsSome(act.description) THEN act.description
                                     ELSE n.description,
                     !.score = IF IsSome(act.score) THEN act.score ELSE n.score,
                     !.tags = IF IsSome(act.tags) THEN act.tags ELSE n.tags],
                  !.updated = @ + 1,
                  !.log = Append(@, logEntry(W, act, "applied"))]

doMoveNode(W, act) ==
    LET i == findIndex(W.heap, W.nodes, strOf(act.id))
    IN IF i = 0 THEN [W EXCEPT !.log = Append(@, logEntry(W, act, "rejected"))]
       ELSE LET o == W.nodes[i]
            IN [W EXCEPT !.heap[o] = [@ EXCEPT !.x = Val(act.x), !.y = Val(act.y)],
                         !.moved = @ + 1,
                         !.log = Append(@, logEntry(W, act, "applied"))]

doDeleteNode(W, act) ==
    LET i == findIndex(W.heap, W.nodes, strOf(act.id))
    IN IF i = 0 THEN [W EXCEPT !.log = Append(@, logEntry(W, act, "rejected"))]
       ELSE [W EXCEPT
               !.nodes = removeAt(@, i),
               !.edges = SelectSeq(@, LAMBDA e : e.source # strOf(act.id)
                                               /\ e.target # strOf(act.id)),
               !.deleted = @ + 1,
               !.log = Append(@, logEntry(W, act, "applied"))]

doAddEdge(W, act) ==
    IF \/ strOf(act.source) \notin W.usedNodeIds
       \/ strOf(act.target) \notin W.usedNodeIds
    THEN [W EXCEPT !.log = Append(@, logEntry(W, act, "rejected"))]
    ELSE IF createsCycle(W.edges, strOf(act.source), strOf(act.target))
    THEN [W EXCEPT !.log = Append(@, logEntry(W, act, "rejected"))]
    ELSE IF ensureIdThrows(act.id)
    THEN [W EXCEPT !.thrown = TRUE, !.log = Append(@, logEntry(W, act, "threw"))]
    ELSE LET id == ensureId(act.id, W.usedEdgeIds, W.avoid)
         IN [W EXCEPT
               !.usedEdgeIds = @ \cup {id},
               !.avoid = @ \cup {id},
               !.edges = Append(@, DagEdge(id, Val(act.source), Val(act.target))),
               !.edgeAdded = @ + 1,
               !.log = Append(@, logEntry(W, act, "applied"))]

doDeleteEdge(W, act) ==
    LET kept == IF truthy(act.id)
                THEN SelectSeq(W.edges, LAMBDA e : e.id # Val(act.id))
                ELSE IF truthy(act.source) /\ truthy(act.target)
                THEN SelectSeq(W.edges, LAMBDA e : ~(e.source = Val(act.source)
                                                     /\ e.target = Val(act.target)))
                ELSE W.edges
        n    == Len(W.edges) - Len(kept)
    IN [W EXCEPT !.edges = kept,
                 !.edgeDeleted = @ + n,
                 !.log = Append(@, logEntry(W, act, IF n > 0 THEN "applied" ELSE "none"))]

doAutoLayout(W, act) ==
    LET direction == IF act.direction = Some("TB") THEN "TB" ELSE "LR"
        spacingX  == IF IsSome(act.spacingX) THEN clampNumber(Val(act.spacingX), 180, 520)
                     ELSE 320
        spacingY  == IF IsSome(act.spacingY) THEN clampNumber(Val(act.spacingY), 120, 420)
                     ELSE 160
    IN Bind(applyAutoLayout(W.heap, W.nodes, W.edges, direction, spacingX, spacingY),
            LAMBDA r : [W EXCEPT !.heap = r.heap, !.nodes = r.nodes,
                                 !.log = Append(@, logEntry(W, act, "layout"))])

applyOne(W, act, origin) ==
    CASE act.type = "add_node"    -> doAddNode(W, act, origin)
      [] act.type = "update_node" -> doUpdateNode(W, act)
      [] act.type = "move_node"   -> doMoveNode(W, act)
      [] act.type = "delete_node" -> doDeleteNode(W, act)
      [] act.type = "add_edge"    -> doAddEdge(W, act)
      [] act.type = "delete_edge" -> doDeleteEdge(W, act)
      [] act.type = "auto_layout" -> doAutoLayout(W, act)
      [] OTHER -> [W EXCEPT !.log = Append(@, logEntry(W, act, "none"))]

\* a variant of the loop that stops at the first rejected command
RECURSIVE applyAllAborting(_, _, _)
applyAllAborting(W0, actions0, origin) ==
    Only({ IF actions = <<>> THEN W
           ELSE Bind(applyOne(W, Head(actions), origin),
                     LAMBDA W1 : IF W1.log[Len(W1.log)].outcome = "rejected" THEN W1
                                 ELSE applyAllAborting(W1, Tail(actions), origin))
           : W \in {W0}, actions \in {actions0} })

RECURSIVE applyAll(_, _, _)
applyAll(W0, actions0, origin) ==
    Only({ IF actions = <<>> \/ W.thrown THEN W
           ELSE applyAll(applyOne(W, Head(actions), origin), Tail(actions), origin)
           : W \in {W0}, actions \in {actions0} })

\* a variant of the commit test that commits whenever a command was read
hasEffectOrRead(W) == W.log # <<>>

hasEffect(W) ==
    W.added + W.updated + W.moved + W.deleted + W.edgeAdded + W.edgeDeleted > 0

\* `Applied: ${added} add, ... ` as the tuple of its six numbers
appliedToast(W) ==
    [kind |-> "applied",
     counts |-> <<W.added, W.updated, W.moved, W.deleted, W.edgeAdded, W.edgeDeleted>>]

(***************************************************************************)
(* GraphEditor.tsx: defaultGraph (lines 82-100)                            *)
(***************************************************************************)
SeedNodes ==
    << DagNode("vision", "Vision", -240, -120, Undef, Undef, Some(<<"vision">>)),
       DagNode("market", "Market Entry Strategies", 60, -180, Undef, Undef, Some(<<"market">>)),
       DagNode("arch", "Technical Architecture Paths", 60, -40, Undef, Undef, Some(<<"tech">>)),
       DagNode("monetization", "Monetization Paths", 60, 100, Undef, Undef, Some(<<"gtm">>)),
       DagNode("validation", "Validation Paths", 360, -160, Undef, Undef, Some(<<"market">>)),
       DagNode("execution", "Execution Roadmap", 360, 80, Undef, Undef, Some(<<"execution">>)) >>

SeedEdges ==
    << DagEdge("e1", "vision", "market"),
       DagEdge("e2", "vision", "arch"),
       DagEdge("e3", "vision", "monetization"),
       DagEdge("e4", "market", "validation"),
       DagEdge("e5", "monetization", "execution"),
       DagEdge("e6", "arch", "execution") >>

DefaultViewport == Viewport(0, 0, 1000)

(***************************************************************************)
(* GraphEditor.tsx: screenToGraph, fitToView.  Coordinates are integers    *)
(* and zoom is in permille, so a quotient is rounded down where the source *)
(* keeps a float.  The canvas element is RectW x RectH pixels.             *)
(***************************************************************************)
RectW == 1200
RectH == 800

screenToGraph(p, vp) ==
    [x |-> ((p.x - vp.x) * 1000) \div vp.zoom, y |-> ((p.y - vp.y) * 1000) \div vp.zoom]

MinOf(S) == CHOOSE m \in S : \A k \in S : m <= k
MaxOf(S) == CHOOSE m \in S : \A k \in S : k <= m

\* the viewport fitToView sets; the viewport is left alone for an empty array
fitToView(ns, vp) ==
    IF Len(ns) = 0 THEN vp
    ELSE LET xs == {ns[i].x : i \in 1..Len(ns)}
             ys == {ns[i].y : i \in 1..Len(ns)}
             width  == Max2(1, MaxOf(xs) - MinOf(xs) + 180)
             height == Max2(1, MaxOf(ys) - MinOf(ys) + 180)
             zoom == clampNumber(Min2((RectW * 1000) \div width, (RectH * 1000) \div height),
                                 350, 1200)
         IN Viewport((RectW * 1000 - (MinOf(xs) + MaxOf(xs)) * zoom) \div 2000,
                     (RectH * 1000 - (MinOf(ys) + MaxOf(ys)) * zoom) \div 2000,
                     zoom)

absVal(a) == IF a < 0 THEN -a ELSE a

\* the effect on [nodes.length] (lines 590-598): fit when the viewport is
\* still the default one
fitEffect(oldLen, ns, vp) ==
    IF Len(ns) = oldLen \/ Len(ns) = 0 THEN vp
    ELSE IF absVal(vp.x) > 1 \/ absVal(vp.y) > 1 \/ vp.zoom # 1000 THEN vp
    ELSE fitToView(ns, vp)

(***************************************************************************)
(* The state of the component (useState and useRef cells, lines 124-148)   *)
(* and of the pending sendToPat call.                                      *)
(***************************************************************************)
VARIABLES
    objs,            \* heap of node objects: identity -> DagNode
    nodes,           \* useState nodes: sequence of object identities
    edges,           \* useState edges
    viewport,        \* useState viewport (and viewportRef, kept equal by the save effect)
    undoStack,       \* useState undoStack: entries [nodes, edges, viewport]
    mode,            \* "select" | "connect"
    connectFrom,     \* null (<<>>) or a node id
    selection,       \* [type, id]
    editorOpen,
    toast,           \* [kind, counts]; kind "none" is null
    importOpen,
    importText,
    patBusy,
    patError,
    pending,         \* <<>> or <<c>>: the render closure of the sendToPat call in flight
    dragRef,
    lastMovedNodeIdRef,
    dragTimers,      \* node ids of the zero-delay timers armed by onCanvasPointerUp
    clickTarget,     \* <<>> or <<i>>: the node whose click event the browser is about to deliver
    lastPointerGraphRef,
    last,            \* record of what the last handler did
    fuel,            \* how many more gestures, requests, edits, imports and undos a run makes
    probe,           \* arguments and result of a function applied on its own
    localStorage     \* [item, quota, failed]: the item under "pat.dag.v1", how many
                     \* setItem calls may still throw, whether the last one threw

vars == <<objs, nodes, edges, viewport, undoStack, mode, connectFrom, selection,
          editorOpen, toast, importOpen, importText, patBusy, patError, pending,
          dragRef, lastMovedNodeIdRef, dragTimers, clickTarget, lastPointerGraphRef,
          last, fuel, probe, localStorage>>

uiVars == <<mode, connectFrom, selection, editorOpen>>
importVars == <<importOpen, importText>>
patVars == <<patBusy, patError>>
pointerVars == <<dragRef, lastMovedNodeIdRef, dragTimers, clickTarget, lastPointerGraphRef>>
graphVars == <<objs, nodes, undoStack, pending>>
budget == <<fuel, probe>>

NoSelection == [type |-> "none", id |-> ""]
NoProbe == [fn |-> "none"]
NoDrag == [type |-> "none"]
Toast(kind) == [kind |-> kind, counts |-> <<>>]
\* what `last` holds after a handler no property needs the details of
Other == [op |-> "other"]

LiveNodes == Deref(objs, nodes)
NodeIds == {LiveNodes[i].id : i \in 1..Len(nodes)}
EdgeIds == {edges[i].id : i \in 1..Len(edges)}

\* every id some part of the state still names: uid() returns none of them
SystemIds ==
    {objs[o].id : o \in DOMAIN objs}
    \cup EdgeIds
    \cup UNION {{undoStack[k].edges[i].id : i \in 1..Len(undoStack[k].edges)} :
                  k \in 1..Len(undoStack)}
    \cup UNION {{pending[k].edges[i].id : i \in 1..Len(pending[k].edges)} :
                  k \in 1..Len(pending)}
    \cup {selection.id} \cup Range(connectFrom) \cup Range(lastMovedNodeIdRef)
    \cup Range(dragTimers)
    \cup (IF dragRef.type = "node" THEN {dragRef.id} ELSE {})

(***************************************************************************)
(* Object identities are not observable: after every handler the objects   *)
(* still referenced are renumbered 1..k in the order in which the live     *)
(* array, the pending closure and the undo entries (newest first) name     *)
(* them, and the unreferenced ones are dropped.                            *)
(***************************************************************************)
RECURSIVE dedupeFrom(_, _)
dedupeFrom(s0, acc0) ==
    Only({ IF s = <<>> THEN acc
           ELSE dedupeFrom(Tail(s),
                           IF Head(s) \in Range(acc) THEN acc ELSE Append(acc, Head(s)))
           : s \in {s0}, acc \in {acc0} })

\* acc, then the objects of the entries not yet in it, the newest entry first
RECURSIVE dedupeEntries(_, _)
dedupeEntries(entries0, acc0) ==
    Only({ IF entries = <<>> THEN acc
           ELSE dedupeEntries(SubSeq(entries, 1, Len(entries) - 1),
                              dedupeFrom(entries[Len(entries)].nodes, acc))
           : entries \in {entries0}, acc \in {acc0} })

Store(heap0, ns0, us0, pend0) ==
    \E heap \in {heap0}, ns \in {ns0}, us \in {us0}, pend \in {pend0} :
    \E order \in {dedupeEntries(us, dedupeEntries(pend, dedupeFrom(ns, <<>>)))} :
      LET ren(o) == CHOOSE k \in 1..Len(order) : order[k] = o
          renArr(a) == [i \in 1..Len(a) |-> ren(a[i])]
          renEntries(es) == [k \in 1..Len(es) |-> [es[k] EXCEPT !.nodes = renArr(@)]]
      IN /\ objs' = [k \in 1..Len(order) |-> heap[order[k]]]
         /\ nodes' = renArr(ns)
         /\ undoStack' = renEntries(us)
         /\ pending' = renEntries(pend)

\* a manual edit that writes the new node into the first object as well
allocInPlace(heap, n) ==
    [p \in DOMAIN heap \cup {newOid(heap)} |-> IF p \in DOMAIN heap /\ p # 1 THEN heap[p] ELSE n]

\* a heap with one more object
alloc(heap, n) ==
    [p \in DOMAIN heap \cup {newOid(heap)} |-> IF p \in DOMAIN heap THEN heap[p] ELSE n]

(***************************************************************************)
(* Inputs of the handlers                                                  *)
(***************************************************************************)
\* pointer displacements from the pointer-down position, in screen pixels
Deltas == { [x |-> 3, y |-> 0], [x |-> 20, y |-> 10] }
\* where a pointer goes down on the canvas element
DownAt == [x |-> 100, y |-> 100]
\* titles typed into the property editor
Titles == {"Renamed"}

(***************************************************************************)
(* storage.ts.  The item stored under "pat.dag.v1" is undefined (nothing   *)
(* stored) or a text, held as what JSON.parse makes of it: kind "empty"    *)
(* (the empty text), "invalid" (not parsable), "scalar" (not an object) or *)
(* "object"; of an object, version is its version field if that is a       *)
(* number, nodes and edges are its arrays (undefined when the field is no  *)
(* array) and viewport is its viewport field if that is an object; a field *)
(* of an entry or of the viewport that is missing or of the wrong type is  *)
(* undefined.  Zoom is in permille.                                        *)
(***************************************************************************)
StoredDoc(kind, version, ns, es, vp) ==
    [kind |-> kind, version |-> version, nodes |-> ns, edges |-> es, viewport |-> vp]

\* lines 30-44
loadNodes(entries) ==
    LET ok(n) == IsSome(n.id) /\ IsSome(n.title) /\ IsSome(n.x) /\ IsSome(n.y)
        good  == SelectSeq(entries, ok)
    IN [i \in 1..Len(good) |->
          DagNode(Val(good[i].id), Val(good[i].title), Val(good[i].x), Val(good[i].y),
                  good[i].description, good[i].score, good[i].tags)]

\* lines 46-51
loadEdges(entries) ==
    LET ok(e) == IsSome(e.id) /\ IsSome(e.source) /\ IsSome(e.target)
        good  == SelectSeq(entries, ok)
    IN [k \in 1..Len(good) |->
          DagEdge(Val(good[k].id), Val(good[k].source), Val(good[k].target))]

\* lines 53-60
loadViewport(vpRaw) ==
    IF ~IsSome(vpRaw) THEN Viewport(0, 0, 1000)
    ELSE Viewport(IF IsSome(Val(vpRaw).x) THEN Val(Val(vpRaw).x) ELSE 0,
                  IF IsSome(Val(vpRaw).y) THEN Val(Val(vpRaw).y) ELSE 0,
                  IF IsSome(Val(vpRaw).zoom) THEN clampNumber(Val(Val(vpRaw).zoom), 200, 2500)
                  ELSE 1000)

\* a load that reads a document of any version
loadGraphAnyVersion(item) ==
    IF item = Undef THEN Undef
    ELSE IF Val(item).kind # "object" THEN Undef
    ELSE IF ~IsSome(Val(item).nodes) \/ ~IsSome(Val(item).edges) THEN Undef
    ELSE Some([nodes |-> loadNodes(Val(Val(item).nodes)),
               edges |-> loadEdges(Val(Val(item).edges)),
               viewport |-> loadViewport(Val(item).viewport)])

\* lines 21-66: undefined stands for null
loadGraph(item) ==
    IF item = Undef THEN Undef
    ELSE IF Val(item).kind # "object" THEN Undef
    ELSE IF Val(item).version # Some(1) THEN Undef
    ELSE IF ~IsSome(Val(item).nodes) \/ ~IsSome(Val(item).edges) THEN Undef
    ELSE Some([nodes |-> loadNodes(Val(Val(item).nodes)),
               edges |-> loadEdges(Val(Val(item).edges)),
               viewport |-> loadViewport(Val(item).viewport)])

\* JSON.stringify({ nodes, edges, viewport, version: 1 }) (line 70): a field
\* that is undefined is left out and NaN is written as null
stringifyGraph(ns, es, vp) ==
    Some(StoredDoc("object", Some(1),
                   Some([i \in 1..Len(ns) |->
                           [id |-> Some(ns[i].id), title |-> Some(ns[i].title),
                            x |-> Some(ns[i].x), y |-> Some(ns[i].y),
                            description |-> ns[i].description,
                            score |-> IF IsSome(ns[i].score) /\ Val(ns[i].score).nan
                                      THEN Undef ELSE ns[i].score,
                            tags |-> ns[i].tags]]),
                   Some([k \in 1..Len(es) |->
                           [id |-> Some(es[k].id), source |-> Some(es[k].source),
                            target |-> Some(es[k].target)]]),
                   Some([x |-> Some(vp.x), y |-> Some(vp.y), zoom |-> Some(vp.zoom)])))

\* saveGraph (lines 68-74): setItem stores the text, or throws and is ignored
saveGraph(ls, ns, es, vp, ok) ==
    IF ok
    THEN [ls EXCEPT !.item = stringifyGraph(ns, es, vp), !.failed = FALSE]
    ELSE [ls EXCEPT !.quota = @ - 1, !.failed = TRUE]

\* the effect on [edges, nodes, viewport] (lines 585-588), which runs after a
\* render in which a setter installed a new array or viewport.  A setter that
\* installs a value equal to the old one would write the text already stored.
SaveEffect ==
    IF <<LiveNodes', edges', viewport'>> = <<LiveNodes, edges, viewport>>
    THEN UNCHANGED localStorage
    ELSE \E ok \in IF localStorage.quota > 0 THEN BOOLEAN ELSE {TRUE} :
            localStorage' = saveGraph(localStorage, LiveNodes', edges', viewport', ok)

can(what) == fuel[what] > 0 /\ fuel.any > 0
spend(what) == fuel' = [fuel EXCEPT ![what] = @ - 1, !.any = @ - 1] /\ UNCHANGED probe

\* quiet: no handler is half-way through a pointer gesture
Idle == dragRef.type = "none" /\ clickTarget = <<>>

(***************************************************************************)
(* Toolbar.tsx lines 71-79: the Connect button calls onMode = setMode      *)
(***************************************************************************)
ToggleMode ==
    /\ Idle
    /\ mode' = IF mode = "connect" THEN "select" ELSE "connect"
    /\ last' = Other
    /\ UNCHANGED <<graphVars, edges, viewport, connectFrom, selection, editorOpen, toast,
                   importVars, patVars, pointerVars, budget>>
    /\ SaveEffect

(***************************************************************************)
(* keydown effect (lines 600-616) and deleteSelection (lines 155-168)      *)
(***************************************************************************)
\* a handler that forgets to drop the pending connect source
KeyEscapeKeepingSource ==
    /\ clickTarget = <<>>
    /\ mode' = "select"
    /\ selection' = NoSelection
    /\ editorOpen' = FALSE
    /\ last' = [op |-> "escape", connectFrom |-> connectFrom, editorOpen |-> editorOpen]
    /\ UNCHANGED <<graphVars, edges, viewport, connectFrom, toast, importVars, patVars,
                   pointerVars, budget>>
    /\ SaveEffect

KeyEscape ==
    /\ clickTarget = <<>>
    /\ connectFrom' = <<>>
    /\ mode' = "select"
    /\ selection' = NoSelection
    /\ editorOpen' = FALSE
    /\ last' = [op |-> "escape", connectFrom |-> connectFrom, editorOpen |-> editorOpen]
    /\ UNCHANGED <<graphVars, edges, viewport, toast, importVars, patVars, pointerVars, budget>>
    /\ SaveEffect

\* Delete/Backspace outside a text field, the toolbar Delete button and the
\* Delete button of the property editor
DeleteSelection ==
    /\ clickTarget = <<>>
    /\ can("edit")
    /\ selection.type # "none"
    /\ spend("edit")
    /\ IF selection.type = "node"
       THEN LET keep == SelectSeq(nodes, LAMBDA o : objs[o].id # selection.id)
            IN /\ Store(objs, keep, undoStack, pending)
               /\ edges' = SelectSeq(edges, LAMBDA e : e.source # selection.id
                                                      /\ e.target # selection.id)
               /\ editorOpen' = FALSE
               /\ connectFrom' = <<>>
               /\ viewport' = fitEffect(Len(nodes), Deref(objs, keep), viewport)
       ELSE /\ edges' = SelectSeq(edges, LAMBDA e : e.id # selection.id)
            /\ UNCHANGED <<graphVars, editorOpen, connectFrom, viewport>>
    /\ selection' = NoSelection
    /\ last' = [op |-> "delete", what |-> selection, nodes0 |-> LiveNodes, edges0 |-> edges]
    /\ UNCHANGED <<mode, toast, importVars, patVars, pointerVars>>
    /\ SaveEffect

(***************************************************************************)
(* Pointer handlers (lines 689-738, 758-771, 994-997)                      *)
(***************************************************************************)
\* onNodePointerDown on the i-th rendered node
NodePointerDown(i) ==
    /\ Idle
    /\ can("gest")
    /\ spend("gest")
    /\ dragRef' = [type |-> "node", id |-> LiveNodes[i].id,
                   origX |-> LiveNodes[i].x, origY |-> LiveNodes[i].y, moved |-> FALSE]
    /\ selection' = [type |-> "node", id |-> LiveNodes[i].id]
    /\ last' = Other
    /\ UNCHANGED <<graphVars, edges, viewport, mode, connectFrom, editorOpen, toast,
                   importVars, patVars, lastMovedNodeIdRef, dragTimers, clickTarget,
                   lastPointerGraphRef>>
    /\ SaveEffect

\* onPointerDown of the path of the k-th edge
EdgePointerDown(k) ==
    /\ Idle
    /\ can("gest")
    /\ spend("gest")
    /\ selection' = [type |-> "edge", id |-> edges[k].id]
    /\ last' = Other
    /\ UNCHANGED <<graphVars, edges, viewport, mode, connectFrom, editorOpen, toast,
                   importVars, patVars, pointerVars>>
    /\ SaveEffect

\* onCanvasPointerDown outside every node
CanvasPointerDown ==
    /\ Idle
    /\ can("gest")
    /\ spend("gest")
    /\ dragRef' = [type |-> "pan", origX |-> viewport.x, origY |-> viewport.y]
    /\ selection' = NoSelection
    /\ editorOpen' = FALSE
    /\ last' = Other
    /\ UNCHANGED <<graphVars, edges, viewport, mode, connectFrom, toast,
                   importVars, patVars, lastMovedNodeIdRef, dragTimers, clickTarget,
                   lastPointerGraphRef>>
    /\ SaveEffect

\* onCanvasPointerMove with the pointer at DownAt + d
CanvasPointerMove(d) ==
    /\ dragRef.type # "none"
    /\ lastPointerGraphRef' =
          screenToGraph([x |-> DownAt.x + d.x, y |-> DownAt.y + d.y], viewport)
    /\ IF dragRef.type = "pan"
       THEN /\ viewport' = [viewport EXCEPT !.x = dragRef.origX + d.x,
                                            !.y = dragRef.origY + d.y]
            /\ UNCHANGED <<graphVars, dragRef>>
       ELSE LET at == [x |-> dragRef.origX + (d.x * 1000) \div viewport.zoom,
                       y |-> dragRef.origY + (d.y * 1000) \div viewport.zoom]
                hit == {i \in 1..Len(nodes) : objs[nodes[i]].id = dragRef.id}
                base == newOid(objs) - 1
                \* prev.map: a new object { ...n, x, y } for every node of that id
                heap == [o \in DOMAIN objs \cup {base + i : i \in hit} |->
                           IF o \in DOMAIN objs THEN objs[o]
                           ELSE [objs[nodes[o - base]] EXCEPT !.x = at.x, !.y = at.y]]
                arr  == [i \in 1..Len(nodes) |-> IF i \in hit THEN base + i ELSE nodes[i]]
            IN /\ dragRef' = [dragRef EXCEPT !.moved = @ \/ (absVal(d.x) + absVal(d.y) > 4)]
               /\ Store(heap, arr, undoStack, pending)
               /\ UNCHANGED viewport
    /\ last' = Other
    /\ UNCHANGED <<edges, uiVars, toast, importVars, patVars, lastMovedNodeIdRef,
                   dragTimers, clickTarget, budget>>
    /\ SaveEffect

\* onCanvasPointerUp; it also serves pointercancel, after which no click follows
CanvasPointerUp(cancel) ==
    /\ dragRef.type # "none"
    /\ IF dragRef.type = "node" /\ dragRef.moved
       THEN /\ lastMovedNodeIdRef' = <<dragRef.id>>
            /\ dragTimers' = Append(dragTimers, dragRef.id)
       ELSE UNCHANGED <<lastMovedNodeIdRef, dragTimers>>
    /\ clickTarget' = IF dragRef.type = "node" /\ ~cancel THEN <<dragRef.id>> ELSE <<>>
    /\ dragRef' = NoDrag
    /\ last' = [op |-> "up", moved |-> dragRef.type = "node" /\ dragRef.moved]
    /\ UNCHANGED <<graphVars, edges, viewport, uiVars, toast, importVars, patVars,
                   lastPointerGraphRef, budget>>
    /\ SaveEffect

\* the zero-delay timer armed at line 733
DragTimer ==
    /\ dragTimers # <<>>
    /\ lastMovedNodeIdRef' = IF lastMovedNodeIdRef = <<Head(dragTimers)>> THEN <<>>
                             ELSE lastMovedNodeIdRef
    /\ dragTimers' = Tail(dragTimers)
    \* the callback is no handler: a gesture that awaits its click stays on record
    /\ last' = IF last.op = "up" /\ clickTarget # <<>> THEN last ELSE Other
    /\ UNCHANGED <<graphVars, edges, viewport, uiVars, toast, importVars, patVars,
                   dragRef, clickTarget, lastPointerGraphRef, budget>>
    /\ SaveEffect

(***************************************************************************)
(* addEdge (lines 671-678) as onNodeClick calls it: the new edge array and *)
(* the toast                                                               *)
(***************************************************************************)
addEdge(edges0, source, target, avoid) ==
    IF createsCycle(edges0, source, target)
    THEN [accepted |-> FALSE, edges |-> edges0]
    ELSE [accepted |-> TRUE, edges |-> Append(edges0, DagEdge(uid(avoid), source, target))]

\* onNodeClick (lines 773-795) for the click event that follows a pointer-up
NodeClick ==
    /\ clickTarget # <<>>
    /\ LET id == clickTarget[1]
       IN IF lastMovedNodeIdRef = <<id>>
          THEN /\ lastMovedNodeIdRef' = <<>>
               /\ last' = [op |-> "click", suppressed |-> TRUE]
               /\ UNCHANGED <<edges, uiVars, toast>>
          ELSE /\ UNCHANGED lastMovedNodeIdRef
               /\ IF mode = "connect"
                  THEN IF ~truthy(connectFrom)
                       THEN /\ connectFrom' = <<id>>
                            /\ toast' = Toast("selectTarget")
                            /\ last' = [op |-> "click", suppressed |-> FALSE]
                            /\ UNCHANGED <<edges, mode, selection, editorOpen>>
                       ELSE IF connectFrom = <<id>>
                       THEN /\ toast' = Toast("pickDifferent")
                            /\ last' = [op |-> "click", suppressed |-> FALSE]
                            /\ UNCHANGED <<edges, mode, connectFrom, selection, editorOpen>>
                       ELSE LET r == addEdge(edges, connectFrom[1], id, SystemIds)
                            IN /\ edges' = r.edges
                               /\ toast' = IF r.accepted THEN toast ELSE Toast("rejected")
                               /\ connectFrom' = <<>>
                               /\ mode' = "select"
                               /\ last' = [op |-> "addEdge", source |-> connectFrom[1],
                                           target |-> id, accepted |-> r.accepted,
                                           nodes0 |-> LiveNodes, edges0 |-> edges]
                               /\ UNCHANGED <<selection, editorOpen>>
                  ELSE /\ selection' = [type |-> "node", id |-> id]
                       /\ editorOpen' = TRUE
                       /\ last' = [op |-> "click", suppressed |-> FALSE]
                       /\ UNCHANGED <<edges, mode, connectFrom, toast>>
    /\ clickTarget' = <<>>
    /\ UNCHANGED <<graphVars, viewport, importVars, patVars, dragRef, dragTimers,
                   lastPointerGraphRef, budget>>
    /\ SaveEffect

(***************************************************************************)
(* onWheel (lines 740-756) with the pointer at DownAt, and the toolbar's   *)
(* zoom buttons (lines 938-939).  Zoom is in permille.                     *)
(***************************************************************************)
Wheel(deltaY) ==
    /\ Idle
    /\ can("gest")
    /\ spend("gest")
    /\ LET factor   == IF 0 - deltaY > 0 THEN 1080 ELSE 920
           nextZoom == clampNumber((viewport.zoom * factor) \div 1000, 250, 2500)
           before   == screenToGraph(DownAt, viewport)
       IN viewport' = Viewport(DownAt.x - (before.x * nextZoom) \div 1000,
                               DownAt.y - (before.y * nextZoom) \div 1000, nextZoom)
    /\ last' = [op |-> "zoom"]
    /\ UNCHANGED <<graphVars, edges, uiVars, toast, importVars, patVars, pointerVars>>
    /\ SaveEffect

ToolbarZoom(zoomIn) ==
    /\ Idle
    /\ can("gest")
    /\ spend("gest")
    /\ viewport' = [viewport EXCEPT
                      !.zoom = clampNumber(IF zoomIn THEN (@ * 1120) \div 1000
                                           ELSE (@ * 1000) \div 1120, 250, 2500)]
    /\ last' = [op |-> "zoom"]
    /\ UNCHANGED <<graphVars, edges, uiVars, toast, importVars, patVars, pointerVars>>
    /\ SaveEffect

(***************************************************************************)
(* createNodeAt (lines 656-669) from the toolbar Add button (lines 927-931)*)
(* and the property editor's onChange (lines 1072-1074)                    *)
(***************************************************************************)
CreateNode ==
    /\ Idle
    /\ can("edit")
    /\ spend("edit")
    /\ LET g  == screenToGraph([x |-> 0, y |-> 0], viewport)
           id == uid(SystemIds)
           n  == DagNode(id, "New node", g.x + 40, g.y + 40, Some(""), Undef,
                         Some(<<"execution">>))
           heap == alloc(objs, n)
           arr  == Append(nodes, newOid(objs))
       IN /\ Store(heap, arr, undoStack, pending)
          /\ selection' = [type |-> "node", id |-> id]
          /\ viewport' = fitEffect(Len(nodes), Deref(heap, arr), viewport)
    /\ editorOpen' = TRUE
    /\ last' = Other
    /\ UNCHANGED <<edges, mode, connectFrom, toast, importVars, patVars, pointerVars>>
    /\ SaveEffect

EditNode(title) ==
    /\ Idle
    /\ can("edit")
    /\ editorOpen /\ selection.type = "node"
    /\ selection.id \in NodeIds
    /\ spend("edit")
    /\ LET i    == findIndex(objs, nodes, selection.id)
           next == [objs[nodes[i]] EXCEPT !.title = title]
           heap == alloc(objs, next)
           arr  == [j \in 1..Len(nodes) |->
                      IF objs[nodes[j]].id = next.id THEN newOid(objs) ELSE nodes[j]]
       IN Store(heap, arr, undoStack, pending)
    /\ last' = Other
    /\ UNCHANGED <<edges, viewport, uiVars, toast, importVars, patVars, pointerVars>>
    /\ SaveEffect

(***************************************************************************)
(* NodeEditorDrawer.tsx lines 76-82: the Score field is a text input, and  *)
(* its onChange stores Number(v) of the trimmed text, or undefined for an  *)
(* empty one.  A number is held in permille; Number of a text that is not  *)
(* a numeral ("-", the first key of "-1") is NaN.                          *)
(***************************************************************************)
Num(v) == [nan |-> FALSE, v |-> v]
NaN == [nan |-> TRUE, v |-> 0]

numberOf(text) ==
    CASE text = "0.8" -> Num(800)
      [] text = "1"   -> Num(1000)
      [] OTHER        -> NaN

ScoreTexts == {"", "0.8", "-"}

EditScore(text) ==
    /\ Idle
    /\ can("edit")
    /\ editorOpen /\ selection.type = "node"
    /\ selection.id \in NodeIds
    /\ spend("edit")
    /\ LET i    == findIndex(objs, nodes, selection.id)
           next == [objs[nodes[i]] EXCEPT
                      !.score = IF text = "" THEN Undef ELSE Some(numberOf(text))]
           heap == alloc(objs, next)
           arr  == [j \in 1..Len(nodes) |->
                      IF objs[nodes[j]].id = next.id THEN newOid(objs) ELSE nodes[j]]
       IN Store(heap, arr, undoStack, pending)
    /\ last' = Other
    /\ UNCHANGED <<edges, viewport, uiVars, toast, importVars, patVars, pointerVars>>
    /\ SaveEffect

(***************************************************************************)
(* Import dialog: openImport, the textarea, applyImport (lines 859-917).   *)
(* importText is held as what JSON.parse makes of it: kind "invalid" (not  *)
(* parsable), "scalar" (not an object), "noarrays" (an object without      *)
(* nodes[] or edges[]) or "object"; a field of an entry that is missing or *)
(* of the wrong type is undefined.                                         *)
(***************************************************************************)
ImportDoc(kind, ns, es) == [kind |-> kind, nodes |-> ns, edges |-> es]
EmptyText == ImportDoc("invalid", <<>>, <<>>)

NodeEntry(id, title, x, y) ==
    [id |-> id, title |-> title, x |-> x, y |-> y,
     description |-> Undef, score |-> Undef, tags |-> Undef]
EdgeEntry(id, source, target) == [id |-> id, source |-> source, target |-> target]

importNodes(entries) ==
    LET ok(n) == IsSome(n.id) /\ IsSome(n.title) /\ IsSome(n.x) /\ IsSome(n.y)
        good  == SelectSeq(entries, ok)
    IN [i \in 1..Len(good) |->
          DagNode(Val(good[i].id), Val(good[i].title), Val(good[i].x), Val(good[i].y),
                  good[i].description, good[i].score, good[i].tags)]

RECURSIVE importEdges(_, _, _)
importEdges(entries0, nodeIds, nextEdges0) ==
    Only({ IF entries = <<>> THEN nextEdges
           ELSE LET e == Head(entries)
                IN IF ~(IsSome(e.id) /\ IsSome(e.source) /\ IsSome(e.target))
                   THEN importEdges(Tail(entries), nodeIds, nextEdges)
                   ELSE IF Val(e.source) \notin nodeIds \/ Val(e.target) \notin nodeIds
                   THEN importEdges(Tail(entries), nodeIds, nextEdges)
                   ELSE IF createsCycle(nextEdges, Val(e.source), Val(e.target))
                   THEN importEdges(Tail(entries), nodeIds, nextEdges)
                   ELSE importEdges(Tail(entries), nodeIds,
                                    Append(nextEdges,
                                           DagEdge(Val(e.id), Val(e.source), Val(e.target))))
           : entries \in {entries0}, nextEdges \in {nextEdges0} })

OpenImport ==
    /\ Idle
    /\ can("imp")
    /\ spend("imp")
    /\ importText' = EmptyText
    /\ importOpen' = TRUE
    /\ last' = Other
    /\ UNCHANGED <<graphVars, edges, viewport, uiVars, toast, patVars, pointerVars>>
    /\ SaveEffect

SetImportText(doc) ==
    /\ Idle
    /\ importOpen
    /\ importText # doc
    /\ importText' = doc
    /\ last' = Other
    /\ UNCHANGED <<graphVars, edges, viewport, uiVars, toast, importOpen, patVars,
                   pointerVars, budget>>
    /\ SaveEffect

\* a validation that lets an object without nodes[] or edges[] through
importVerdictLax(doc) ==
    IF doc.kind \in {"invalid", "scalar"} THEN "invalidJson" ELSE "ok"

\* lines 865-880: the notice applyImport returns with, or "ok"
importVerdict(doc) ==
    IF doc.kind \in {"invalid", "scalar"} THEN "invalidJson"
    ELSE IF doc.kind = "noarrays" THEN "needArrays"
    ELSE "ok"

ApplyImport ==
    /\ Idle
    /\ importOpen
    /\ IF importVerdict(importText) # "ok"
       THEN /\ toast' = Toast(importVerdict(importText))
            /\ last' = [op |-> "import", ok |-> FALSE]
            /\ UNCHANGED <<graphVars, edges, viewport, uiVars, importOpen>>
       ELSE \E nextNodes \in {importNodes(importText.nodes)} :
            \E nodeIds \in {{nextNodes[i].id : i \in 1..Len(nextNodes)}} :
            LET nextEdges == importEdges(importText.edges, nodeIds, <<>>)
                base      == newOid(objs) - 1
                heap      == [o \in DOMAIN objs \cup {base + i : i \in 1..Len(nextNodes)} |->
                                IF o \in DOMAIN objs THEN objs[o] ELSE nextNodes[o - base]]
            IN /\ Store(heap, [i \in 1..Len(nextNodes) |-> base + i], undoStack, pending)
               /\ edges' = nextEdges
               /\ importOpen' = FALSE
               /\ selection' = NoSelection
               /\ connectFrom' = <<>>
               \* the effect on nodes.length, then the timer that calls fitToView
               /\ viewport' = fitToView(nextNodes, fitEffect(Len(nodes), nextNodes, viewport))
               /\ toast' = Toast("imported")
               /\ last' = [op |-> "import", ok |-> TRUE, doc |-> importText]
               /\ UNCHANGED <<mode, editorOpen>>
    /\ UNCHANGED <<importText, patVars, pointerVars, budget>>
    /\ SaveEffect

(***************************************************************************)
(* exportJson (lines 842-857): JSON.stringify({ nodes, edges }) goes to    *)
(* the clipboard (held in `probe`) and to a download.  The text is held as *)
(* what JSON.parse makes of it: stringify leaves out a field that is       *)
(* undefined and writes NaN as null, which no typeof check of applyImport  *)
(* accepts.                                                                *)
(***************************************************************************)
exportJson(ns, es) ==
    ImportDoc("object",
              [i \in 1..Len(ns) |->
                  [id |-> Some(ns[i].id), title |-> Some(ns[i].title),
                   x |-> Some(ns[i].x), y |-> Some(ns[i].y),
                   description |-> ns[i].description,
                   score |-> IF IsSome(ns[i].score) /\ Val(ns[i].score).nan
                             THEN Undef ELSE ns[i].score,
                   tags |-> ns[i].tags]],
              [k \in 1..Len(es) |->
                  EdgeEntry(Some(es[k].id), Some(es[k].source), Some(es[k].target))])

ExportJson ==
    /\ Idle
    /\ probe' = [fn |-> "exportJson", payload |-> exportJson(LiveNodes, edges)]
    /\ toast' = Toast("exported")
    /\ last' = Other
    /\ UNCHANGED <<graphVars, edges, viewport, uiVars, importVars, patVars, pointerVars,
                   fuel>>
    /\ SaveEffect

\* the clipboard is pasted into the import dialog's textarea (line 1088)
PasteExport ==
    /\ probe.fn = "exportJson"
    /\ SetImportText(probe.payload)

(***************************************************************************)
(* sendToPat (lines 424-532).  The call runs up to its await in the render *)
(* in which it was made; what follows the await runs in the same closure,  *)
(* so applyCanvasActions reads that render's nodes, edges and viewport.    *)
(* The reply is what the transport and the decoding make of the answer:    *)
(*   "error"   the call failed or answered ok: false                       *)
(*   "text"    no <canvas_actions> block                                   *)
(*   "badjson" a block parsePatJson cannot decode                          *)
(*   "payload" a decoded block: a bare array, or an object with actions    *)
(*             and possibly a message                                      *)
(***************************************************************************)

(***************************************************************************)
(* The text of a reply is a sequence of pieces: "word" (visible text with  *)
(* no bracket or brace), "space" (white space), "open" and "close" (the    *)
(* tags <canvas_actions> and </canvas_actions>), "json" (a complete JSON   *)
(* value, the one the fields isArray, message and actions describe) and    *)
(* "junk" (text with no bracket or brace, which is not JSON).              *)
(***************************************************************************)
Pieces == {"word", "space", "open", "close", "json", "junk"}

\* String.prototype.indexOf, 1-based: 0 stands for -1
indexOf(text, piece) ==
    IF \E i \in 1..Len(text) : text[i] = piece
    THEN MinOf({i \in 1..Len(text) : text[i] = piece})
    ELSE 0

\* String.prototype.trim
trim(text) ==
    LET ink == {i \in 1..Len(text) : text[i] # "space"}
    IN IF ink = {} THEN <<>> ELSE SubSeq(text, MinOf(ink), MaxOf(ink))

\* an extraction that does not compare the positions of the two tags
extractUnordered(text) ==
    LET start == indexOf(text, "open")
        end   == indexOf(text, "close")
    IN IF start = 0 \/ end = 0
       THEN [visibleText |-> trim(text), jsonText |-> Undef]
       ELSE [visibleText |-> trim(SubSeq(text, 1, start - 1)
                                   \o SubSeq(text, end + 1, Len(text))),
             jsonText |-> Some(trim(SubSeq(text, start + 1, end - 1)))]

\* lines 41-52
extractCanvasActionsBlock(text) ==
    LET start == indexOf(text, "open")
        end   == indexOf(text, "close")
    IN IF start = 0 \/ end = 0 \/ end <= start
       THEN [visibleText |-> trim(text), jsonText |-> Undef]
       ELSE [visibleText |-> trim(SubSeq(text, 1, start - 1)
                                   \o SubSeq(text, end + 1, Len(text))),
             jsonText |-> Some(trim(SubSeq(text, start + 1, end - 1)))]

\* lines 209-224: the text from the first bracket or brace to the last one
\* is handed to JSON.parse; two values in a row are not JSON
parsePatJson(text, value) ==
    IF Cardinality({i \in 1..Len(text) : text[i] = "json"}) = 1
    THEN Some(value)
    ELSE Undef

\* the reply text each kind of reply stands for
textOf(kind) ==
    CASE kind = "text"    -> <<"word">>
      [] kind = "badjson" -> <<"word", "open", "junk", "close">>
      [] kind = "payload" -> <<"word", "open", "json", "close">>
      [] OTHER            -> <<>>

Reply(kind, isArray, message, actions) ==
    [kind |-> kind, isArray |-> isArray, message |-> message, actions |-> actions,
     text |-> textOf(kind)]

\* a reply the transport delivered (res.ok, data.ok) with the given text
RawReply(text, isArray, message, actions) ==
    [kind |-> "raw", isArray |-> isArray, message |-> message, actions |-> actions,
     text |-> text]

\* lines 483-507: what sendToPat makes of a reply
outcomeOf(reply) ==
    IF reply.kind = "error" THEN "error"
    ELSE LET jsonText == extractCanvasActionsBlock(reply.text).jsonText
         IN IF jsonText = Undef \/ Val(jsonText) = <<>> THEN "text"
            ELSE IF parsePatJson(Val(jsonText), "value") = Undef THEN "badjson"
            ELSE "payload"

\* line 500: the assistant message appended to the chat, visibleText || "…"
shownText(reply) ==
    LET visibleText == extractCanvasActionsBlock(reply.text).visibleText
    IN IF visibleText = <<>> THEN <<"ellipsis">> ELSE visibleText

\* the text the send handlers pass: trimmed and not empty (lines 1191-1192)
Question == "ask"

\* a guard that looks at the question alone
sendRefusedOnEmptyOnly(question, busy) == question = ""

\* line 426: if (!question || patBusy) return
sendRefused(question, busy) == question = "" \/ busy

SendToPat ==
    /\ Idle
    /\ can("send")
    /\ spend("send")
    /\ IF sendRefused(Question, patBusy)
       THEN /\ last' = [op |-> "send", refused |-> TRUE]
            /\ UNCHANGED <<graphVars, patVars>>
       ELSE /\ patBusy' = TRUE
            /\ patError' = "none"
            /\ Store(objs, nodes, undoStack,
                     <<[nodes |-> nodes, edges |-> edges, viewport |-> viewport]>>)
            /\ last' = [op |-> "send", refused |-> FALSE]
    /\ UNCHANGED <<edges, viewport, uiVars, toast, importVars, pointerVars>>
    /\ SaveEffect

\* a push that keeps every earlier entry
pushUndoKeepAll(prev, entry) == Append(prev, entry)

\* line 413: setUndoStack((prev) => [...prev.slice(-9), entry])
pushUndo(prev, entry) ==
    Append(SubSeq(prev, Max2(1, Len(prev) - 8), Len(prev)), entry)

\* lines 529-531: without the finally block a failed call would stay busy
busyAfterNoFinally(reply) == reply.kind = "error"

\* lines 529-531: finally { setPatBusy(false) }, whatever the reply
busyAfter(reply) == FALSE

\* applyCanvasActions as the continuation of sendToPat calls it
Apply(reply) ==
    \E W \in {applyAll(workingCopy(objs, pending[1].nodes, pending[1].edges, SystemIds),
                        normalize(reply.actions), lastPointerGraphRef)} :
    LET c  == pending[1]
        msg == ~reply.isArray /\ IsSome(reply.message)
        snapshot == [nodes |-> c.nodes, edges |-> c.edges, viewport |-> c.viewport]
        t1 == IF hasEffect(W) THEN appliedToast(W) ELSE Toast("noChanges")
    IN /\ IF W.thrown
          THEN /\ Store(W.heap, nodes, undoStack, <<>>)
               /\ UNCHANGED <<edges, viewport>>
          ELSE IF hasEffect(W)
          THEN /\ Store(W.heap, W.nodes,
                        pushUndo(undoStack, snapshot), <<>>)
               /\ edges' = W.edges
               /\ viewport' = fitEffect(Len(nodes), Deref(W.heap, W.nodes), viewport)
          ELSE /\ Store(objs, nodes, undoStack, <<>>)
               /\ UNCHANGED <<edges, viewport>>
       /\ patError' = IF W.thrown THEN "exception" ELSE patError
       /\ toast' = IF W.thrown THEN toast ELSE IF msg THEN Toast("message") ELSE t1
       /\ last' = [op |-> IF W.thrown THEN "reply" ELSE "apply",
                   kind |-> IF W.thrown THEN "exception" ELSE "payload",
                   entries |-> reply.actions,
                   actions |-> normalize(reply.actions), isArray |-> reply.isArray,
                   message |-> msg, committed |-> ~W.thrown /\ hasEffect(W), log |-> W.log,
                   counts |-> appliedToast(W).counts, notice |-> t1,
                   base |-> [nodes |-> Deref(objs, c.nodes), edges |-> c.edges,
                             viewport |-> c.viewport],
                   live |-> [nodes |-> LiveNodes, edges |-> edges, viewport |-> viewport],
                   result |-> [nodes |-> Deref(W.heap, W.nodes), edges |-> W.edges],
                   stackLen |-> Len(undoStack),
                   text |-> reply.text, shown |-> shownText(reply)]

Receive(reply) ==
    /\ pending # <<>>
    /\ clickTarget = <<>>
    /\ patBusy' = busyAfter(reply)
    /\ \E kind \in {outcomeOf(reply)} :
       CASE kind = "error" ->
              /\ patError' = "transport"
              /\ last' = [op |-> "reply", kind |-> kind, text |-> reply.text,
                          shown |-> <<>>]
              /\ Store(objs, nodes, undoStack, <<>>)
              /\ UNCHANGED <<edges, viewport, toast>>
         [] kind = "badjson" ->
              /\ patError' = "decode"
              /\ last' = [op |-> "reply", kind |-> kind, text |-> reply.text,
                          shown |-> shownText(reply)]
              /\ Store(objs, nodes, undoStack, <<>>)
              /\ UNCHANGED <<edges, viewport, toast>>
         [] kind = "text" \/ (kind = "payload" /\ normalize(reply.actions) = <<>>) ->
              /\ last' = [op |-> "reply", kind |-> kind, text |-> reply.text,
                          shown |-> shownText(reply), entries |-> reply.actions]
              /\ Store(objs, nodes, undoStack, <<>>)
              /\ UNCHANGED <<edges, viewport, toast, patError>>
         [] OTHER ->
              /\ Apply(reply)
    /\ UNCHANGED <<uiVars, importVars, pointerVars, budget>>
    /\ IF last'.kind = "exception" THEN UNCHANGED localStorage ELSE SaveEffect

(***************************************************************************)
(* undoLast (lines 534-544)                                                *)
(***************************************************************************)
\* an undo that takes an empty document when the stack has no entry
undoTopOrBlank(prev) ==
    IF prev = <<>> THEN <<[nodes |-> <<>>, edges |-> <<>>, viewport |-> DefaultViewport]>>
    ELSE <<prev[Len(prev)]>>

\* line 536: const last = prev[prev.length - 1], undefined on an empty stack
undoTop(prev) == IF prev = <<>> THEN <<>> ELSE <<prev[Len(prev)]>>

UndoLast ==
    /\ Idle
    /\ fuel.undo > 0
    /\ fuel' = [fuel EXCEPT !.undo = @ - 1]
    /\ IF undoTop(undoStack) = <<>>
       THEN /\ last' = [op |-> "undo", popped |-> FALSE]
            /\ UNCHANGED <<graphVars, edges, viewport, toast>>
       ELSE LET top == undoTop(undoStack)[1]
            IN /\ Store(objs, top.nodes, SubSeq(undoStack, 1, Len(undoStack) - 1), pending)
               /\ edges' = top.edges
               /\ viewport' = fitEffect(Len(nodes), Deref(objs, top.nodes), top.viewport)
               /\ toast' = Toast("undone")
               /\ last' = [op |-> "undo", popped |-> TRUE,
                           entry |-> [nodes |-> Deref(objs, top.nodes), edges |-> top.edges,
                                      viewport |-> top.viewport],
                           live |-> [nodes |-> LiveNodes, edges |-> edges]]
    /\ UNCHANGED <<uiVars, importVars, patVars, pointerVars, probe>>
    /\ SaveEffect

(***************************************************************************)
(* The state after mounting with nothing stored: the load effect installs  *)
(* defaultGraph() (lines 546-552) and the effect on nodes.length fits the  *)
(* view.  `f` is the number of gestures, requests, edits, imports and undos *)
(* the run goes on to make.                                                *)
(***************************************************************************)
Mounted ==
    /\ objs = SeedNodes
    /\ nodes = [i \in 1..Len(SeedNodes) |-> i]
    /\ edges = SeedEdges
    /\ viewport = fitEffect(0, SeedNodes, DefaultViewport)
    /\ undoStack = <<>>
    /\ mode = "select"
    /\ connectFrom = <<>>
    /\ selection = NoSelection
    /\ editorOpen = FALSE
    /\ toast = Toast("none")
    /\ importOpen = FALSE
    /\ importText = EmptyText
    /\ patBusy = FALSE
    /\ patError = "none"
    /\ pending = <<>>
    /\ dragRef = NoDrag
    /\ lastMovedNodeIdRef = <<>>
    /\ dragTimers = <<>>
    /\ clickTarget = <<>>
    /\ lastPointerGraphRef = [x |-> 0, y |-> 0]
    /\ last = [op |-> "init"]
    /\ localStorage = [item |-> stringifyGraph(SeedNodes, SeedEdges,
                                               fitEffect(0, SeedNodes, DefaultViewport)),
                       quota |-> 0, failed |-> FALSE]

\* how many times a run invokes undo
MaxUndos == 2

Fuel(gest, send, edit, imp, any) ==
    [gest |-> gest, send |-> send, edit |-> edit, imp |-> imp, any |-> any,
     undo |-> MaxUndos]

InitWith(f) == Mounted /\ fuel = f /\ probe = NoProbe

(***************************************************************************)
(* dag.ts: createsCycle applied on its own to an edge array and two ids    *)
(***************************************************************************)
ProbeCreatesCycle ==
    /\ probe.fn = "createsCycle"
    /\ ~probe.done
    /\ probe' = [probe EXCEPT !.done = TRUE,
                              !.result = createsCycle(probe.edges, probe.source, probe.target)]
    /\ UNCHANGED <<graphVars, edges, viewport, uiVars, toast, importVars, patVars,
                   pointerVars, last, fuel>>
    /\ SaveEffect

(***************************************************************************)
(* Agent commands and replies                                              *)
(***************************************************************************)
ScenarioBatch ==
    << AddNode(Some("x")), AddEdge(Undef, "x", "vision"), AddEdge(Undef, "vision", "x") >>

CoreBatches ==
    { ScenarioBatch,
      << DeleteNode("vision"), AddEdge(Undef, "market", "vision") >>,
      << UpdateNode("vision", "Renamed") >>,
      << MoveNode("market", 5, 5), DeleteNode("arch") >>,
      << AddEdge(Undef, "execution", "vision") >>,
      << AddEdge(Some("e1"), "validation", "execution"), DeleteEdgeById("e1") >>,
      << AutoLayout(Undef) >> }

\* what the transport can answer besides a batch
PlainReplies ==
    { Reply("error", FALSE, Undef, <<>>),
      Reply("text", FALSE, Undef, <<>>),
      Reply("badjson", FALSE, Undef, <<>>),
      Reply("payload", TRUE, Undef, <<>>),
      Reply("payload", FALSE, Some("done"), <<>>) }

CoreReplies ==
    PlainReplies
    \cup { Reply("payload", TRUE, Undef, b) : b \in CoreBatches }
    \cup { Reply("payload", FALSE, Some("done"), b) : b \in CoreBatches }

\* the commands batches are made of
Commands ==
    { AddNode(Some("x")), AddNode(Undef),
      UpdateNode("vision", "Renamed"), UpdateNode("zz", "Renamed"),
      MoveNode("market", 5, 5), MoveNode("zz", 5, 5),
      DeleteNode("vision"), DeleteNode("zz"),
      AddEdge(Undef, "x", "vision"), AddEdge(Undef, "vision", "x"),
      AddEdge(Undef, "execution", "vision"), AddEdge(Some("e1"), "validation", "execution"),
      AddEdge(Undef, "market", "vision"), AddEdge(Undef, "zz", "vision"),
      DeleteEdgeById("e1"), DeleteEdgeById("zz"), DeleteEdgeByPair("vision", "market"),
      AutoLayout(Undef) }

MaxBatchLen == 2

Batches == UNION { [1..n -> Commands] : n \in 0..MaxBatchLen }

AgentReplies ==
    PlainReplies
    \cup { Reply("payload", TRUE, Undef, b) : b \in Batches \cup CoreBatches }
    \cup { Reply("payload", FALSE, Some("done"), b) : b \in CoreBatches }
    \cup { Reply("payload", FALSE, Some("done"), <<c>>) : c \in Commands }

(***************************************************************************)
(* Documents pasted into the import dialog                                 *)
(***************************************************************************)
DocEmptyId ==
    ImportDoc("object",
              << NodeEntry(Some(""), Some("E"), Some(0), Some(0)),
                 NodeEntry(Some("a"), Some("A"), Some(10), Some(10)) >>,
              << EdgeEntry(Some("p"), Some("a"), Some("")),
                 EdgeEntry(Some("q"), Some(""), Some("a")) >>)

DocTriangle ==
    ImportDoc("object",
              << NodeEntry(Some("a"), Some("A"), Some(0), Some(0)),
                 NodeEntry(Some("b"), Some("B"), Some(10), Some(0)),
                 NodeEntry(Some("c"), Undef, Some(20), Some(0)),
                 NodeEntry(Some("c"), Some("C"), Some(20), Some(0)) >>,
              << EdgeEntry(Some("p"), Some("a"), Some("b")),
                 EdgeEntry(Some("q"), Some("b"), Some("c")),
                 EdgeEntry(Some("r"), Some("c"), Some("a")),
                 EdgeEntry(Some("s"), Some("a"), Some("zz")),
                 EdgeEntry(Undef, Some("a"), Some("c")) >>)

\* two well-formed nodes with one id
DocTwins ==
    ImportDoc("object",
              << NodeEntry(Some("a"), Some("A"), Some(0), Some(0)),
                 NodeEntry(Some("a"), Some("A2"), Some(0), Some(10)),
                 NodeEntry(Some("b"), Some("B"), Some(10), Some(0)) >>,
              << EdgeEntry(Some("p"), Some("a"), Some("b")) >>)

Docs ==
    { DocEmptyId, DocTriangle,
      ImportDoc("scalar", <<>>, <<>>), ImportDoc("noarrays", <<>>, <<>>) }

(***************************************************************************)
(* Spec: the editor with every handler, driven by a gesture, an edit, an   *)
(* import and one agent request answered from a short list.                *)
(***************************************************************************)
MaxGestures == 1
MaxSends == 1
MaxEdits == 1
MaxImports == 1
MaxOps == 2

Init == InitWith(Fuel(MaxGestures, MaxSends, MaxEdits, MaxImports, MaxOps))

Next ==
    \/ ToggleMode
    \/ KeyEscape
    \/ DeleteSelection
    \/ \E i \in 1..Len(nodes) : NodePointerDown(i)
    \/ \E k \in 1..Len(edges) : EdgePointerDown(k)
    \/ CanvasPointerDown
    \/ \E d \in Deltas : CanvasPointerMove(d)
    \/ \E cancel \in BOOLEAN : CanvasPointerUp(cancel)
    \/ DragTimer
    \/ NodeClick
    \/ \E deltaY \in {-1, 1} : Wheel(deltaY)
    \/ \E zoomIn \in BOOLEAN : ToolbarZoom(zoomIn)
    \/ CreateNode
    \/ \E t \in Titles : EditNode(t)
    \/ OpenImport
    \/ \E doc \in Docs : SetImportText(doc)
    \/ ApplyImport
    \/ SendToPat
    \/ \E reply \in CoreReplies : Receive(reply)
    \/ UndoLast

Spec == Init /\ [][Next]_vars

(***************************************************************************)
(* SpecAgent: one agent request answered by any batch of up to MaxBatchLen *)
(* commands, with manual edits and undo around it.                         *)
(***************************************************************************)
AgentEdits == 1

InitAgent == InitWith(Fuel(0, 1, AgentEdits, 0, 1 + AgentEdits))

NextAgent ==
    \/ SendToPat
    \/ \E reply \in AgentReplies : Receive(reply)
    \/ UndoLast
    \/ CreateNode

SpecAgent == InitAgent /\ [][NextAgent]_vars

(***************************************************************************)
(* SpecPointer: pointer gestures, connect mode and the keyboard, without   *)
(* the agent and the import dialog.                                        *)
(***************************************************************************)
PointerGestures == 2

InitPointer == InitWith(Fuel(PointerGestures, 0, 1, 0, PointerGestures + 1))

NextPointer ==
    \/ ToggleMode
    \/ KeyEscape
    \/ DeleteSelection
    \/ \E i \in 1..Len(nodes) : NodePointerDown(i)
    \/ \E k \in 1..Len(edges) : EdgePointerDown(k)
    \/ CanvasPointerDown
    \/ \E d \in Deltas : CanvasPointerMove(d)
    \/ \E cancel \in BOOLEAN : CanvasPointerUp(cancel)
    \/ DragTimer
    \/ NodeClick

SpecPointer == InitPointer /\ [][NextPointer]_vars

(***************************************************************************)
(* SpecCycle: createsCycle on every edge array of up to MaxCycleEdges      *)
(* edges over CycleIds and every pair of ids.                              *)
(***************************************************************************)
CycleIds == {"", "a", "b"}
MaxCycleEdges == 3

CycleEdges == { DagEdge("e", s, t) : s \in CycleIds, t \in CycleIds }

InitCycle ==
    /\ Mounted
    /\ fuel = Fuel(0, 0, 0, 0, 0)
    /\ probe \in [fn : {"createsCycle"},
                  edges : UNION { [1..n -> CycleEdges] : n \in 0..MaxCycleEdges },
                  source : CycleIds, target : CycleIds,
                  done : {FALSE}, result : {FALSE}]

NextCycle == ProbeCreatesCycle

SpecCycle == InitCycle /\ [][NextCycle]_vars

(***************************************************************************)
(* SpecUndo: a long conversation.  Up to MaxUndoSends requests, each       *)
(* answered by a reply without commands or by a batch that removes or      *)
(* restores the edge e1, and undo at any time.                             *)
(***************************************************************************)
MaxUndoSends == 11

UndoReplies ==
    { Reply("text", FALSE, Undef, <<>>),
      Reply("payload", TRUE, Undef, << DeleteEdgeById("e1") >>),
      Reply("payload", TRUE, Undef, << AddEdge(Some("e1"), "vision", "market") >>) }

\* undos in the long conversation
LongUndos == 1

InitUndo ==
    InitWith([Fuel(0, MaxUndoSends, 0, 0, MaxUndoSends) EXCEPT !.undo = LongUndos])

NextUndo ==
    \/ SendToPat
    \/ \E reply \in UndoReplies : Receive(reply)
    \/ UndoLast

SpecUndo == InitUndo /\ [][NextUndo]_vars

(***************************************************************************)
(* SpecBusy: up to BusySends requests, each answered with any outcome of   *)
(* the call; every call that is pending settles in the end.                *)
(***************************************************************************)
BusySends == 2

BusyReplies ==
    PlainReplies
    \cup { Reply("payload", TRUE, Undef, << UpdateNode("vision", "Renamed") >>),
           Reply("payload", FALSE, Some("done"), << DeleteEdgeById("zz") >>) }

InitBusy == InitWith(Fuel(0, BusySends, 0, 0, BusySends))

\* the fetch of the pending call settles and the continuation runs
Settle == \E reply \in BusyReplies : Receive(reply)

NextBusy ==
    \/ SendToPat
    \/ Settle
    \/ UndoLast

SpecBusy == InitBusy /\ [][NextBusy]_vars /\ WF_vars(Settle)

(***************************************************************************)
(* SpecTrip: documents made by hand and by one agent batch are exported,   *)
(* and the exported text is imported again.                                *)
(***************************************************************************)
TripEdits == 2

NextTrip ==
    \/ CreateNode
    \/ \E text \in ScoreTexts : EditScore(text)
    \/ SendToPat
    \/ \E reply \in CoreReplies : Receive(reply)
    \/ ExportJson
    \/ OpenImport
    \/ PasteExport
    \/ ApplyImport

SpecTrip == InitWith(Fuel(0, 1, TripEdits, 1, TripEdits + 1)) /\ [][NextTrip]_vars

(***************************************************************************)
(* SpecLayout: a document is imported or a node is added by hand, and the  *)
(* agent answers one request with a batch that lays the canvas out.        *)
(***************************************************************************)
\* a node with the empty id that already leads to a
DocEmptySource ==
    ImportDoc("object",
              << NodeEntry(Some(""), Some("E"), Some(0), Some(0)),
                 NodeEntry(Some("a"), Some("A"), Some(10), Some(10)) >>,
              << EdgeEntry(Some("q"), Some(""), Some("a")) >>)

LayoutDocs == { DocTwins, DocTriangle, DocEmptyId, DocEmptySource }

LayoutReplies ==
    { Reply("payload", TRUE, Undef, b) :
        b \in { << AutoLayout(Undef) >>, << AutoLayout(Some("TB")) >>,
                << AutoLayout(Undef), UpdateNode("a", "Renamed") >>,
                << DeleteNode("vision"), AutoLayout(Some("TB")) >> } }

NextLayout ==
    \/ CreateNode
    \/ OpenImport
    \/ \E doc \in LayoutDocs : SetImportText(doc)
    \/ ApplyImport
    \/ SendToPat
    \/ \E reply \in LayoutReplies : Receive(reply)
    \/ UndoLast

SpecLayout == InitWith(Fuel(0, 1, 1, 1, 3)) /\ [][NextLayout]_vars

(***************************************************************************)
(* SpecConnect: a document is imported, then nodes are clicked in connect  *)
(* and in select mode.                                                     *)
(***************************************************************************)
ConnectDocs == { DocEmptySource, DocTwins }

ConnectClicks == 2

NextConnect ==
    \/ OpenImport
    \/ \E doc \in ConnectDocs : SetImportText(doc)
    \/ ApplyImport
    \/ ToggleMode
    \/ KeyEscape
    \/ \E i \in 1..Len(nodes) : NodePointerDown(i)
    \/ \E cancel \in BOOLEAN : CanvasPointerUp(cancel)
    \/ NodeClick
    \/ DeleteSelection

SpecConnect == InitWith(Fuel(ConnectClicks, 0, 1, 1, ConnectClicks + 1)) /\ [][NextConnect]_vars

(***************************************************************************)
(* SpecReply: round-trips whose replies are every text of up to            *)
(* MaxReplyLen pieces and a few longer ones; the JSON value of a reply is  *)
(* one batch that renames a node.                                          *)
(***************************************************************************)
MaxReplyLen == 3
ReplySends == 2

ReplyTexts ==
    UNION { [1..n -> Pieces] : n \in 0..MaxReplyLen }
    \cup { <<"word", "open", "json", "close", "word">>,
           <<"word", "close", "json", "open", "word">>,
           <<"space", "open", "space", "close", "space">>,
           <<"open", "junk", "json", "junk", "close">>,
           <<"open", "json", "space", "json", "close">> }

ReplyReplies ==
    { RawReply(text, TRUE, Undef, << UpdateNode("vision", "Renamed") >>) : text \in ReplyTexts }
    \cup { Reply("error", FALSE, Undef, <<>>) }

NextReply ==
    \/ SendToPat
    \/ \E reply \in ReplyReplies : Receive(reply)

SpecReply == InitWith(Fuel(0, ReplySends, 0, 0, ReplySends)) /\ [][NextReply]_vars

(***************************************************************************)
(* SpecEntries: one round-trip whose reply is a batch of up to MaxEntries  *)
(* entries, among them entries that are no commands and commands with a    *)
(* number where an id is expected.                                         *)
(***************************************************************************)
MaxEntries == 3

BatchEntries ==
    { NonObjectEntry, UntypedEntry,
      CanvasAction("rename_node", Some("vision"), Some("Renamed"), Undef, Undef, Undef, Undef, Undef),
      AddNode(Some(NumericId)),
      UpdateNode(NumericId, "Renamed"),
      AddEdge(Some(NumericId), "market", "execution"),
      DeleteEdgeById(NumericId),
      AddNode(Some("x")),
      UpdateNode("vision", "Renamed"),
      DeleteEdgeById("e1") }

EntryReplies ==
    { Reply("payload", TRUE, Undef, b) : b \in UNION { [1..n -> BatchEntries] : n \in 0..MaxEntries } }

NextEntries ==
    \/ SendToPat
    \/ \E reply \in EntryReplies : Receive(reply)

SpecEntries == InitWith(Fuel(0, 1, 0, 0, 1)) /\ [][NextEntries]_vars

(***************************************************************************)
(* SpecStore: the component mounts over each of StoredItems, with up to    *)
(* MaxFailures setItem calls that throw, and then handles a node creation, *)
(* a wheel zoom, an undo and a round-trip.                                 *)
(***************************************************************************)
MaxFailures == 1

\* a stored document with the given version, arrays and viewport
DocStored(version, ns, es, vp) == Some(StoredDoc("object", version, ns, es, vp))
StoredViewport(x, y, zoom) == Some([x |-> x, y |-> y, zoom |-> zoom])
GoodNodes == << NodeEntry(Some("a"), Some("A"), Some(0), Some(0)),
                NodeEntry(Some("b"), Some("B"), Some(10), Some(10)) >>
GoodEdges == << EdgeEntry(Some("p"), Some("a"), Some("b")) >>

StoredItems ==
    { Undef,
      Some(StoredDoc("empty", Undef, Undef, Undef, Undef)),
      Some(StoredDoc("invalid", Undef, Undef, Undef, Undef)),
      Some(StoredDoc("scalar", Undef, Undef, Undef, Undef)),
      DocStored(Some(1), Some(GoodNodes), Some(GoodEdges), StoredViewport(Some(5), Some(5), Some(1000))),
      DocStored(Some(2), Some(GoodNodes), Some(GoodEdges), StoredViewport(Some(5), Some(5), Some(1000))),
      DocStored(Undef, Some(GoodNodes), Some(GoodEdges), StoredViewport(Some(5), Some(5), Some(1000))),
      DocStored(Some(1), Undef, Some(GoodEdges), StoredViewport(Some(5), Some(5), Some(1000))),
      DocStored(Some(1), Some(GoodNodes), Undef, StoredViewport(Some(5), Some(5), Some(1000))),
      DocStored(Some(1), Some(<<>>), Some(<<>>), StoredViewport(Some(0), Some(0), Some(1000))),
      DocStored(Some(1), Some(<< GoodNodes[1], NodeEntry(Some("b"), Undef, Some(10), Some(10)) >>),
                Some(GoodEdges), StoredViewport(Some(5), Some(5), Some(1000))),
      DocStored(Some(1), Some(GoodNodes), Some(<< EdgeEntry(Some("p"), Undef, Some("b")) >>),
                StoredViewport(Some(5), Some(5), Some(1000))),
      DocStored(Some(1), Some(GoodNodes), Some(GoodEdges), Undef),
      DocStored(Some(1), Some(GoodNodes), Some(GoodEdges), StoredViewport(Some(5), Undef, Some(5000))) }

StoreReplies ==
    { Reply("text", FALSE, Undef, <<>>),
      Reply("payload", TRUE, Undef, << UpdateNode("a", "Renamed") >>),
      Reply("payload", TRUE, Undef, << UpdateNode("vision", "Renamed"), AddNode(Some(NumericId)) >>),
      Reply("payload", TRUE, Undef, << UpdateNode("a", "Renamed"), AddEdge(Some(NumericId), "a", "b") >>) }

\* the first render (lines 130-148), before any effect has run
InitStore ==
    /\ objs = <<>>
    /\ nodes = <<>>
    /\ edges = <<>>
    /\ viewport = DefaultViewport
    /\ undoStack = <<>>
    /\ mode = "select"
    /\ connectFrom = <<>>
    /\ selection = NoSelection
    /\ editorOpen = FALSE
    /\ toast = Toast("none")
    /\ importOpen = FALSE
    /\ importText = EmptyText
    /\ patBusy = FALSE
    /\ patError = "none"
    /\ pending = <<>>
    /\ dragRef = NoDrag
    /\ lastMovedNodeIdRef = <<>>
    /\ dragTimers = <<>>
    /\ clickTarget = <<>>
    /\ lastPointerGraphRef = [x |-> 0, y |-> 0]
    /\ last = [op |-> "render"]
    /\ fuel = Fuel(1, 1, 1, 0, 2)
    /\ probe = NoProbe
    /\ \E item \in StoredItems, quota \in 0..MaxFailures :
          localStorage = [item |-> item, quota |-> quota, failed |-> FALSE]

\* the effects of the first commit: the load effect (lines 546-552) reads the
\* item and calls the setters, the save effect (lines 585-588) writes the
\* state of the first render
MountEffects ==
    /\ last.op = "render"
    /\ \E ok \in IF localStorage.quota > 0 THEN BOOLEAN ELSE {TRUE} :
          localStorage' = saveGraph(localStorage, LiveNodes, edges, viewport, ok)
    /\ last' = [op |-> "mounting", item |-> localStorage.item,
                found |-> loadGraph(localStorage.item),
                loaded |-> IF IsSome(loadGraph(localStorage.item))
                           THEN Val(loadGraph(localStorage.item))
                           ELSE [nodes |-> SeedNodes, edges |-> SeedEdges,
                                 viewport |-> DefaultViewport]]
    /\ UNCHANGED <<graphVars, edges, viewport, uiVars, toast, importVars, patVars,
                   pointerVars, budget>>

\* the render with the loaded state, its save effect and the effect on
\* nodes.length (lines 590-598)
MountRender ==
    /\ last.op = "mounting"
    /\ objs' = last.loaded.nodes
    /\ nodes' = [i \in 1..Len(last.loaded.nodes) |-> i]
    /\ edges' = last.loaded.edges
    /\ viewport' = fitEffect(0, last.loaded.nodes, last.loaded.viewport)
    /\ last' = [last EXCEPT !.op = "mounted"]
    /\ UNCHANGED <<undoStack, pending, uiVars, toast, importVars, patVars,
                   pointerVars, budget>>
    /\ SaveEffect

\* the effects of the first commit have run and their state is rendered
Ready == last.op \notin {"render", "mounting"}

NextStore ==
    \/ MountEffects
    \/ MountRender
    \/ Ready /\ CreateNode
    \/ Ready /\ \E deltaY \in {-1, 1} : Wheel(deltaY)
    \/ Ready /\ SendToPat
    \/ Ready /\ \E reply \in StoreReplies : Receive(reply)
    \/ Ready /\ UndoLast

SpecStore == InitStore /\ [][NextStore]_vars

(***************************************************************************)
(* SpecIds: one agent request answered by a batch of up to MaxIdBatch      *)
(* commands that add nodes and edges under preferred ids, some of them     *)
(* taken, some freed earlier in the same batch.                            *)
(***************************************************************************)
MaxIdBatch == 3

IdEntries ==
    { AddNode(Some("vision")), AddNode(Some("vision-2")), AddNode(Some("x")),
      DeleteNode("vision"),
      AddEdge(Some("e4"), "market", "execution"), AddEdge(Some("n1"), "arch", "validation"),
      DeleteEdgeById("e4") }

IdReplies ==
    { Reply("payload", TRUE, Undef, b) : b \in UNION { [1..n -> IdEntries] : n \in 0..MaxIdBatch } }

NextIds ==
    \/ SendToPat
    \/ \E reply \in IdReplies : Receive(reply)

SpecIds == InitWith(Fuel(0, 1, 0, 0, 1)) /\ [][NextIds]_vars

(***************************************************************************)
(* SpecTerm: the two while loops, one iteration per step.  createsCycle    *)
(* (dag.ts lines 5-26) runs on every array of up to MaxTermEdges edges     *)
(* over CycleIds and every pair of ids; the Kahn loop of applyAutoLayout   *)
(* (lines 237-263) runs on the nodes TermNodes, whose ids are pairwise     *)
(* distinct, under every array of up to MaxTermEdges edges over TermEnds:  *)
(* arrays with cycles, self-loops, repeated edges and edges to the id zz   *)
(* no node has.  A loop runs to completion once entered, hence the weak    *)
(* fairness of its step.                                                   *)
(***************************************************************************)
MaxTermEdges == 3
\* longer than any stack createsCycle builds over MaxTermEdges edges
MaxStack == 8

TermNodes ==
    << DagNode("a", "A", 0, 30, Undef, Undef, Undef),
       DagNode("", "E", 5, 20, Undef, Undef, Undef),
       DagNode("b", "B", 10, 10, Undef, Undef, Undef) >>

TermEnds == {"a", "b", "zz"}

TermEdges == { DagEdge("e", s, t) : s \in TermEnds, t \in TermEnds }

\* a variant of the loop body that neither tests nor fills `seen`
whileStackUnmarked(p) ==
    IF p.pc = "entry"
    THEN IF p.source = p.target THEN [p EXCEPT !.pc = "done", !.result = TRUE]
         ELSE [p EXCEPT !.pc = "loop", !.stack = <<p.target>>]
    ELSE IF p.stack = <<>> THEN [p EXCEPT !.pc = "done", !.result = FALSE]
    ELSE LET cur  == p.stack[Len(p.stack)]
             rest == SubSeq(p.stack, 1, Len(p.stack) - 1)
         IN IF cur = "" THEN [p EXCEPT !.stack = rest]
            ELSE IF cur = p.source THEN [p EXCEPT !.pc = "done", !.result = TRUE]
            ELSE [p EXCEPT !.stack = rest \o adjOf(p.edges, cur)]

\* dag.ts: lines 5-15 at "entry", then one pass of the while loop (16-24)
whileStack(p) ==
    IF p.pc = "entry"
    THEN IF p.source = p.target THEN [p EXCEPT !.pc = "done", !.result = TRUE]
         ELSE [p EXCEPT !.pc = "loop", !.stack = <<p.target>>]
    ELSE IF p.stack = <<>> THEN [p EXCEPT !.pc = "done", !.result = FALSE]
    ELSE LET cur  == p.stack[Len(p.stack)]
             rest == SubSeq(p.stack, 1, Len(p.stack) - 1)
         IN IF cur = "" THEN [p EXCEPT !.stack = rest]
            ELSE IF cur = p.source THEN [p EXCEPT !.pc = "done", !.result = TRUE]
            ELSE IF cur \in p.seen THEN [p EXCEPT !.stack = rest]
            ELSE [p EXCEPT !.stack = rest \o adjOf(p.edges, cur),
                           !.seen = @ \cup {cur}]

\* applyAutoLayout: lines 237-251 at "entry", one pass of the while loop
\* (253-263) at "loop", and the rest of the function (265-297) at "place"
whileQueue(p) ==
    IF p.pc = "entry"
    THEN LET ids   == {p.nodes[i].id : i \in 1..Len(p.nodes)}
             valid == SelectSeq(p.edges, LAMBDA e : e.source \in ids /\ e.target \in ids)
             indeg == [id \in ids |->
                         Cardinality({i \in 1..Len(valid) : valid[i].target = id})]
         IN [p EXCEPT !.pc = "loop", !.valid = valid, !.indeg = indeg,
                      !.queue = SelectSeq(mapKeys(p.nodes), LAMBDA id : indeg[id] = 0)]
    ELSE IF p.pc = "loop"
    THEN IF p.queue = <<>> \/ Head(p.queue) = "" THEN [p EXCEPT !.pc = "place"]
         ELSE LET cur == Head(p.queue)
                  r   == kahnVisit(adjOf(p.valid, cur), p.indeg, Tail(p.queue))
              IN [p EXCEPT !.indeg = r.indeg, !.queue = r.queue, !.topo = Append(@, cur)]
    ELSE LET heap == [o \in 1..Len(p.nodes) |-> p.nodes[o]]
             r    == applyAutoLayout(heap, [o \in 1..Len(p.nodes) |-> o], p.edges,
                                     "LR", 320, 160)
         IN [p EXCEPT !.pc = "done", !.result = Deref(r.heap, r.nodes)]

InitTerm ==
    /\ Mounted
    /\ fuel = Fuel(0, 0, 0, 0, 0)
    /\ probe \in
         [fn : {"createsCycle"}, pc : {"entry"},
          edges : UNION { [1..n -> CycleEdges] : n \in 0..MaxTermEdges },
          source : CycleIds, target : CycleIds,
          stack : {<<>>}, seen : {{}}, result : {FALSE}]
         \cup
         [fn : {"applyAutoLayout"}, pc : {"entry"}, nodes : {TermNodes},
          edges : UNION { [1..n -> TermEdges] : n \in 0..MaxTermEdges },
          valid : {<<>>}, indeg : {<<>>}, queue : {<<>>}, topo : {<<>>},
          result : {<<>>}]

StackStep ==
    /\ probe.fn = "createsCycle"
    /\ probe.pc # "done"
    /\ Len(probe.stack) < MaxStack
    /\ probe' = whileStack(probe)
    /\ UNCHANGED <<graphVars, edges, viewport, uiVars, toast, importVars, patVars,
                   pointerVars, last, fuel>>
    /\ SaveEffect

QueueStep ==
    /\ probe.fn = "applyAutoLayout"
    /\ probe.pc # "done"
    /\ probe' = whileQueue(probe)
    /\ UNCHANGED <<graphVars, edges, viewport, uiVars, toast, importVars, patVars,
                   pointerVars, last, fuel>>
    /\ SaveEffect

NextTerm ==
    \/ StackStep
    \/ QueueStep

SpecTerm == InitTerm /\ [][NextTerm]_vars /\ WF_vars(NextTerm)

(***************************************************************************)
(* Reference notions the properties are stated with                        *)
(***************************************************************************)
\* the ids one edge of E away from a member of S, together with S
Succ(E, S) == S \cup {E[i].target : i \in {j \in 1..Len(E) : E[j].source \in S}}

RECURSIVE ReachSet(_, _)
ReachSet(E, S0) ==
    Bind(S0, LAMBDA S : Bind(Succ(E, S), LAMBDA T : IF T = S THEN S ELSE ReachSet(E, T)))

\* `to` is reachable from `from` along edges of E (in zero or more steps)
Reachable(E, from, to) == to \in ReachSet(E, {from})

HasCycle(E) == \E i \in 1..Len(E) : Reachable(E, E[i].target, E[i].source)

\* the undo entries with their node objects read out of the heap
UndoEntries ==
    [k \in 1..Len(undoStack) |->
        [nodes |-> Deref(objs, undoStack[k].nodes), edges |-> undoStack[k].edges,
         viewport |-> undoStack[k].viewport]]

idsOf(ns) == {ns[i].id : i \in 1..Len(ns)}

SeedIds == idsOf(SeedNodes)

\* the step in which the reply of the request in flight is handled by
\* applyCanvasActions
ApplyStep == pending # <<>> /\ last'.op = "apply"

(***************************************************************************)
(* C1.  In every state reachable from the seed document by manual          *)
(* connects, deletions, agent batches, imports and undos, the live edge    *)
(* set is acyclic: no sequence of edges leads from a node back to itself.  *)
(***************************************************************************)
C1_LiveEdgesAcyclic == ~HasCycle(edges)

(***************************************************************************)
(* C2.  createsCycle(E, u, v) returns true exactly when u = v or u is      *)
(* reachable from v along edges of E.                                      *)
(***************************************************************************)
C2_CreatesCycleIsReachability ==
    (probe.fn = "createsCycle" /\ probe.done) =>
        (probe.result <=> (\/ probe.source = probe.target
                           \/ Reachable(probe.edges, probe.target, probe.source)))

(***************************************************************************)
(* C3.  In an agent batch an add_edge command is applied only if both its  *)
(* endpoints are nodes present in the working copy at that point of the    *)
(* batch; nodes deleted earlier in the batch do not count.                 *)
(***************************************************************************)
C3_AddEdgeEndpointsPresent ==
    last.op = "apply" =>
        \A i \in 1..Len(last.log) :
            (last.log[i].act.type = "add_edge" /\ last.log[i].outcome = "applied") =>
                /\ Val(last.log[i].act.source) \in last.log[i].nodeIds
                /\ Val(last.log[i].act.target) \in last.log[i].nodeIds

(***************************************************************************)
(* C4.  A rejected command never aborts or partially applies the batch:    *)
(* every command of the batch is processed, and what the batch commits is  *)
(* what the batch without its rejected commands commits on the same state. *)
(***************************************************************************)
keptCommands(actions, log) ==
    LET keep == {i \in 1..Len(actions) : ~(i <= Len(log) /\ log[i].outcome = "rejected")}
        F[i \in 0..Len(actions)] ==
            IF i = 0 THEN <<>>
            ELSE LET r == F[i - 1] IN IF i \in keep THEN Append(r, actions[i]) ELSE r
    IN F[Len(actions)]

\* C4: every command is processed, and the batch commits what the batch without
\* its rejected commands commits
C4_RejectedCommandsAreSkipped ==
    [][ ApplyStep =>
          LET W2 == applyAll(workingCopy(objs, pending[1].nodes, pending[1].edges, SystemIds),
                             keptCommands(last'.actions, last'.log), lastPointerGraphRef)
          IN /\ Len(last'.log) = Len(last'.actions)
             /\ last'.committed = hasEffect(W2)
             /\ last'.counts = appliedToast(W2).counts
             /\ IF last'.committed
                THEN LiveNodes' = Deref(W2.heap, W2.nodes) /\ edges' = W2.edges
                ELSE LiveNodes' = LiveNodes /\ edges' = edges ]_vars

\* a batch was committed in which an applied command follows a rejected one
C4_Witness ==
    /\ last.op = "apply" /\ last.committed
    /\ \E i \in 1..(Len(last.log) - 1) :
          last.log[i].outcome = "rejected" /\ last.log[i + 1].outcome = "applied"

(***************************************************************************)
(* C5.  On the seed graph the batch [add_node x; add_edge x->vision;       *)
(* add_edge vision->x] adds node x, accepts the first edge and rejects the *)
(* second: one more node, one more edge x->vision, and a summary of 1 add  *)
(* and 1 edge+.                                                            *)
(***************************************************************************)
OnSeed(g) == g.nodes = SeedNodes /\ g.edges = SeedEdges

ScenarioApplied ==
    last.op = "apply" /\ last.actions = ScenarioBatch /\ OnSeed(last.base) /\ OnSeed(last.live)

\* C5: the scenario batch on the seed graph gives one node, one edge x->vision
\* and the summary 1 add, 1 edge+
C5_ScenarioOnSeed ==
    ScenarioApplied =>
        /\ [i \in 1..3 |-> last.log[i].outcome] = <<"applied", "applied", "rejected">>
        /\ last.notice = [kind |-> "applied", counts |-> <<1, 0, 0, 0, 1, 0>>]
        /\ Len(nodes) = 7 /\ SubSeq(LiveNodes, 1, 6) = SeedNodes /\ LiveNodes[7].id = "x"
        /\ Len(edges) = 7 /\ SubSeq(edges, 1, 6) = SeedEdges
        /\ edges[7].source = "x" /\ edges[7].target = "vision"

\* the scenario batch has just been applied to the seed graph
C5_Witness == ScenarioApplied /\ "x" \in NodeIds

(***************************************************************************)
(* C6.  On the seed graph addEdge(execution, vision) is rejected and       *)
(* addEdge(validation, execution) is accepted.                             *)
(***************************************************************************)
ConnectOnSeed(source, target) ==
    /\ last.op = "addEdge" /\ last.source = source /\ last.target = target
    /\ idsOf(last.nodes0) = SeedIds /\ last.edges0 = SeedEdges

\* C6: on the seed graph execution -> vision is rejected and
\* validation -> execution is accepted
C6_SeedConnects ==
    /\ ConnectOnSeed("execution", "vision") =>
          ~last.accepted /\ edges = SeedEdges /\ toast = Toast("rejected")
    /\ ConnectOnSeed("validation", "execution") =>
          /\ last.accepted
          /\ Len(edges) = 7 /\ SubSeq(edges, 1, 6) = SeedEdges
          /\ edges[7].source = "validation" /\ edges[7].target = "execution"

\* in connect mode on the seed graph, execution then vision were clicked
C6_Witness == ConnectOnSeed("execution", "vision") /\ Len(edges) = 6

(***************************************************************************)
(* C7.  An empty batch, or one in which every command is rejected or has   *)
(* no effect, leaves the live nodes and edges identical and pushes no undo *)
(* entry.  As claimed: the only thing produced is a "no changes" notice.   *)
(* As the code has it: a non-empty such batch sets the "no changes"        *)
(* notice, which the message of the payload replaces when it has one, and  *)
(* an empty batch sets no notice.                                          *)
(***************************************************************************)
\* the step in which a payload whose commands all fail or do nothing is handled
NoEffectStep ==
    /\ pending # <<>>
    /\ \/ last'.op = "reply" /\ last'.kind = "payload"
       \/ /\ last'.op = "apply"
          /\ \A i \in 1..Len(last'.log) : last'.log[i].outcome \in {"rejected", "none"}

NoEffectFrame ==
    /\ LiveNodes' = LiveNodes
    /\ edges' = edges
    /\ UndoEntries' = UndoEntries

C8_OneEntryOfPreBatchState ==
    (last.op = "apply" /\ last.committed) =>
        /\ Len(undoStack) = Min2(last.stackLen + 1, 10)
        /\ UndoEntries[Len(undoStack)] = last.live
        /\ LiveNodes = last.result.nodes
        /\ edges = last.result.edges

(***************************************************************************)
(* C9.  Applying a batch that has an effect on live state S and then       *)
(* invoking undo yields a document whose node-id set and edge set are      *)
(* those of S.                                                             *)
(***************************************************************************)
C9_UndoReversesBatch ==
    [][ (last.op = "apply" /\ last.committed /\ last'.op = "undo" /\ last'.popped) =>
          /\ NodeIds' = idsOf(last.live.nodes)
          /\ Range(edges') = Range(last.live.edges) ]_vars

(***************************************************************************)
(* C10.  An undo entry is immutable: the fields of its nodes are those the *)
(* nodes had before the batch that pushed it, and no later step changes    *)
(* them while the entry is on the stack.                                   *)
(***************************************************************************)
PushStep == ApplyStep /\ last'.committed

\* C10: the nodes of a pushed entry have their pre-batch values, and the nodes
\* of an entry that stays on the stack do not change
C10_UndoEntryImmutable ==
    [][ LET shift == IF PushStep /\ Len(undoStack) = 10 THEN 1 ELSE 0
            older == IF PushStep THEN Len(undoStack') - 1 ELSE Len(undoStack')
        IN /\ \A k \in 1..older :
                 UndoEntries'[k].nodes = UndoEntries[k + shift].nodes
           /\ PushStep =>
                 UndoEntries'[Len(undoStack')].nodes = Deref(objs, pending[1].nodes) ]_vars

(***************************************************************************)
(* C11.  The undo stack never holds more than 10 entries; a batch with an  *)
(* effect applied while it holds 10 discards the oldest entry, keeps the   *)
(* other nine in order and puts the new entry on top, so only the 10 most  *)
(* recent batches can be undone.                                           *)
(***************************************************************************)
C11_UndoStackBounded ==
    [][ /\ Len(undoStack) <= 10
        /\ Len(undoStack') <= 10
        /\ (PushStep /\ Len(undoStack) = 10) =>
              /\ Len(undoStack') = 10
              /\ \A k \in 1..9 : UndoEntries'[k] = UndoEntries[k + 1]
              /\ UndoEntries'[10] = [nodes |-> Deref(objs, pending[1].nodes),
                                     edges |-> pending[1].edges,
                                     viewport |-> pending[1].viewport] ]_vars

\* a batch has been committed on a full stack
C11_Witness ==
    /\ last.op = "apply" /\ last.committed
    /\ last.stackLen = 10
    /\ Len(undoStack) = 10

(***************************************************************************)
(* C12.  Undo on an empty stack is a no-op: nodes, edges and viewport stay *)
(* as they are and the stack stays empty, so undos drain the stack and     *)
(* then do nothing.                                                        *)
(***************************************************************************)
C12_UndoOnEmptyIsNoOp ==
    [][ (undoStack = <<>> /\ last'.op = "undo" /\ fuel'.undo < fuel.undo) =>
          /\ ~last'.popped
          /\ LiveNodes' = LiveNodes
          /\ edges' = edges
          /\ viewport' = viewport
          /\ undoStack' = <<>>
          /\ toast' = toast
          /\ patError' = patError ]_vars

\* an undo that popped the only entry has been followed by an undo that found
\* the stack empty
C12_Witness ==
    /\ last.op = "undo" /\ ~last.popped
    /\ toast.kind = "undone"
    /\ undoStack = <<>>

C14_OneRoundTripInFlight ==
    [][ /\ Len(pending) <= 1 /\ Len(pending') <= 1
        /\ patBusy <=> pending # <<>>
        /\ patBusy' <=> pending' # <<>>
        /\ (patBusy /\ last'.op = "send" /\ fuel'.send < fuel.send) =>
              /\ last'.refused
              /\ pending' = pending
              /\ patBusy'
              /\ UNCHANGED <<objs, nodes, edges, viewport, undoStack>> ]_vars

\* a send has been refused while a request was pending
C14_Witness ==
    /\ last.op = "send" /\ last.refused
    /\ patBusy /\ pending # <<>>

(***************************************************************************)
(* C15.  A reply that arrives after manual edits made during the           *)
(* round-trip is applied to the live nodes and edges as they are at        *)
(* arrival: the state the batch starts from, which is also the snapshot    *)
(* pushed on the undo stack, is the live state of the arrival.             *)
(***************************************************************************)
C15_BatchAppliedToArrivalState ==
    (last.op = "apply") =>
        /\ last.base.nodes = last.live.nodes
        /\ last.base.edges = last.live.edges
        /\ last.base.viewport = last.live.viewport

(***************************************************************************)
(* C16.  Every round-trip that is started clears the busy flag when the    *)
(* call settles, whatever the outcome (commands, no command block, an      *)
(* undecodable block, an empty action list, a transport failure), and a    *)
(* request made after that is accepted.                                    *)
(***************************************************************************)
C16_BusyClearedWhenSettled ==
    /\ patBusy ~> ~patBusy
    /\ [][ (pending # <<>> /\ pending' = <<>>) => ~patBusy' ]_vars
    /\ [][ (~patBusy /\ last'.op = "send" /\ fuel'.send < fuel.send) =>
              (~last'.refused /\ patBusy') ]_vars

\* a second request has been accepted, after the first one settled
C16_Witness ==
    /\ last.op = "send" /\ ~last.refused
    /\ fuel.send = 0
    /\ patBusy

(***************************************************************************)
(* C17.  Import takes the edges of the document one by one, in order, and  *)
(* keeps an edge iff it is well-formed, both its endpoints are among the   *)
(* imported nodes and it closes no cycle with the edges kept so far; the   *)
(* live edges after the import are acyclic and every endpoint is an        *)
(* imported node.                                                          *)
(***************************************************************************)
\* the edges the rule keeps, with "closes a cycle" read as reachability
RECURSIVE keptEdges(_, _, _)
keptEdges(entries0, nodeIds, kept0) ==
    Only({ IF entries = <<>> THEN kept
           ELSE LET e == Head(entries)
                    wellFormed == IsSome(e.id) /\ IsSome(e.source) /\ IsSome(e.target)
                    keep == /\ wellFormed
                            /\ Val(e.source) \in nodeIds /\ Val(e.target) \in nodeIds
                            /\ Val(e.source) # Val(e.target)
                            /\ ~Reachable(kept, Val(e.target), Val(e.source))
                IN keptEdges(Tail(entries), nodeIds,
                             IF keep THEN Append(kept, DagEdge(Val(e.id), Val(e.source),
                                                               Val(e.target)))
                             ELSE kept)
           : entries \in {entries0}, kept \in {kept0} })

C17_ImportKeepsAcyclicEdges ==
    (last.op = "import" /\ last.ok) =>
        /\ edges = keptEdges(last.doc.edges, NodeIds, <<>>)
        /\ ~HasCycle(edges)
        /\ \A i \in 1..Len(edges) : edges[i].source \in NodeIds /\ edges[i].target \in NodeIds

(***************************************************************************)
(* C18.  An import whose text is not parsable, is not an object or lacks a *)
(* nodes array or an edges array is answered with a notice and leaves the  *)
(* live nodes, edges, viewport, selection and undo stack unchanged.        *)
(***************************************************************************)
C18_BadImportChangesNothing ==
    [][ (/\ importOpen
         /\ importText.kind \in {"invalid", "scalar", "noarrays"}
         /\ last'.op = "import") =>
          /\ ~last'.ok
          /\ toast'.kind \in {"invalidJson", "needArrays"}
          /\ LiveNodes' = LiveNodes
          /\ edges' = edges
          /\ viewport' = viewport
          /\ selection' = selection
          /\ UndoEntries' = UndoEntries ]_vars

\* an object without nodes[] and edges[] has been turned down
C18_Witness ==
    /\ last.op = "import" /\ ~last.ok
    /\ toast.kind = "needArrays"
    /\ importText.kind = "noarrays"

(***************************************************************************)
(* C19.  For a live document that is acyclic and whose edges all join      *)
(* nodes of the document, importing the text that export produced yields a *)
(* live document with the same set of nodes (all fields) and the same set  *)
(* of edges.                                                               *)
(***************************************************************************)
C19_ExportImportRoundTrip ==
    [][ (/\ importOpen
         /\ importText = exportJson(LiveNodes, edges)
         /\ ~HasCycle(edges)
         /\ \A i \in 1..Len(edges) :
               edges[i].source \in NodeIds /\ edges[i].target \in NodeIds
         /\ last'.op = "import") =>
          /\ last'.ok
          /\ Range(LiveNodes') = Range(LiveNodes)
          /\ Range(edges') = Range(edges) ]_vars

(***************************************************************************)
(* C20.  Auto-layout returns the same nodes in the same order with the     *)
(* same id, title, description, score and tags; it adds and removes no     *)
(* node and changes no edge: only x and y of a node may differ.            *)
(***************************************************************************)
C20_AutoLayoutMovesOnly ==
    (/\ last.op = "apply"
     /\ Len(last.actions) = 1
     /\ last.actions[1].type = "auto_layout") =>
        /\ Len(last.result.nodes) = Len(last.base.nodes)
        /\ \A i \in 1..Len(last.base.nodes) :
              [last.result.nodes[i] EXCEPT !.x = last.base.nodes[i].x,
                                          !.y = last.base.nodes[i].y] = last.base.nodes[i]
        /\ last.result.edges = last.base.edges

(***************************************************************************)
(* C21.  A manual addEdge(source, target) with source = target, or with a  *)
(* target that already reaches the source, is rejected: the live edges and *)
(* nodes stay exactly as they were and the rejection notice is raised.     *)
(***************************************************************************)
C21_ManualAddEdgeRejected ==
    (/\ last.op = "addEdge"
     /\ \/ last.source = last.target
        \/ Reachable(last.edges0, last.target, last.source)) =>
        /\ ~last.accepted
        /\ edges = last.edges0
        /\ LiveNodes = last.nodes0
        /\ toast.kind = "rejected"


(***************************************************************************)
(* C22: deleting a node, by Delete on a selected node or by an agent       *)
(* delete_node command, removes that one node and every edge whose source  *)
(* or target is that node, and removes no other node and no other edge.    *)
(***************************************************************************)
\* `after` is `before` without one node of that id and without its edges
removesOneNode(id, before, after) ==
    /\ after.edges = SelectSeq(before.edges, LAMBDA e : e.source # id /\ e.target # id)
    /\ \E i \in 1..Len(before.nodes) :
          /\ before.nodes[i].id = id
          /\ after.nodes = [k \in 1..(Len(before.nodes) - 1) |->
                               IF k < i THEN before.nodes[k] ELSE before.nodes[k + 1]]

C22_DeleteNodeRemovesItAndItsEdges ==
    /\ (/\ last.op = "delete"
        /\ last.what.type = "node"
        /\ \E i \in 1..Len(last.nodes0) : last.nodes0[i].id = last.what.id) =>
           removesOneNode(last.what.id,
                          [nodes |-> last.nodes0, edges |-> last.edges0],
                          [nodes |-> LiveNodes, edges |-> edges])
    /\ (/\ last.op = "apply"
        /\ Len(last.actions) = 1
        /\ last.actions[1].type = "delete_node"
        /\ last.log[1].outcome = "applied") =>
           removesOneNode(strOf(last.actions[1].id), last.base, last.result)

(***************************************************************************)
(* C23: a reply without the command tag pair (no opening tag, no closing   *)
(* tag, or the first closing tag before the first opening tag) is shown    *)
(* whole as the visible text (white space around it removed, a placeholder *)
(* standing for a blank one), applies no command, leaves the nodes, the    *)
(* edges and the undo stack as they are and reports no error.              *)
(***************************************************************************)
\* the text has no opening tag followed, somewhere later, by the first closing tag
noTagPair(text) ==
    \/ \A i \in 1..Len(text) : text[i] # "open"
    \/ \A i \in 1..Len(text) : text[i] # "close"
    \/ \E j \in 1..Len(text) :
          /\ text[j] = "close"
          /\ \A i \in 1..j : text[i] # "open"

\* the text without the white space at its two ends
stripped(text) ==
    SelectSeq([i \in 1..Len(text) |->
                  IF \/ \A k \in 1..i : text[k] = "space"
                     \/ \A k \in i..Len(text) : text[k] = "space"
                  THEN "" ELSE text[i]],
              LAMBDA piece : piece # "")

firstOf(text, piece) == CHOOSE i \in 1..Len(text) :
                            text[i] = piece /\ \A k \in 1..(i - 1) : text[k] # piece

\* the pieces between the two tags, and the pieces outside them
payloadOf(text) == SubSeq(text, firstOf(text, "open") + 1, firstOf(text, "close") - 1)
outsideOf(text) == SubSeq(text, 1, firstOf(text, "open") - 1)
                     \o SubSeq(text, firstOf(text, "close") + 1, Len(text))

\* a payload is JSON when it holds one JSON value and nothing but words
\* without bracket or brace around it
decodable(payload) == \E i \in 1..Len(payload) :
                          /\ payload[i] = "json"
                          /\ \A k \in 1..Len(payload) : payload[k] = "json" => k = i

C24_UndecodablePayloadReported ==
    [][ (/\ pending # <<>>
         /\ pending' = <<>>
         /\ last'.op \in {"reply", "apply"}
         /\ last'.kind # "error"
         /\ ~noTagPair(last'.text)
         /\ ~decodable(payloadOf(last'.text))) =>
            /\ last'.op = "reply"
            /\ patError' = "decode"
            /\ last'.shown = IF stripped(outsideOf(last'.text)) = <<>> THEN <<"ellipsis">>
                             ELSE stripped(outsideOf(last'.text))
            /\ LiveNodes' = LiveNodes
            /\ edges' = edges
            /\ UndoEntries' = UndoEntries ]_vars

(***************************************************************************)
(* C25: an entry of an agent batch that is no well-formed command (not an  *)
(* object, no type or an unknown one, a field of the wrong type such as an *)
(* id that is no string) is skipped on its own: the batch reports no       *)
(* error, and the nodes, the edges and the counts of the summary are those *)
(* of the batch without that entry.                                        *)
(***************************************************************************)
CommandTypes == {"add_node", "update_node", "move_node", "delete_node",
                 "add_edge", "delete_edge", "auto_layout"}

wellFormedEntry(a) ==
    /\ a.type \in CommandTypes
    /\ IsSome(a.id) => isString(Val(a.id))
    /\ IsSome(a.source) => isString(Val(a.source))
    /\ IsSome(a.target) => isString(Val(a.target))

C25_MalformedEntriesSkipped ==
    [][ (/\ pending # <<>>
         /\ pending' = <<>>
         /\ last'.op \in {"reply", "apply"}
         /\ last'.kind \in {"payload", "exception"}) =>
            LET W == applyAll(workingCopy(objs, pending[1].nodes, pending[1].edges, SystemIds),
                              SelectSeq(last'.entries, wellFormedEntry),
                              lastPointerGraphRef)
            IN /\ patError' = "none"
               /\ LiveNodes' = Deref(W.heap, W.nodes)
               /\ edges' = W.edges
               /\ hasEffect(W) =>
                     /\ last'.op = "apply"
                     /\ last'.counts = appliedToast(W).counts ]_vars

(***************************************************************************)
(* C26 as stated: whenever the stored item mismatches the document         *)
(* structure in any way (nothing stored, unparsable text, wrong version,   *)
(* a missing required field, a field of the wrong type), load returns no   *)
(* document and the component starts from the seed document: 6 nodes, 6    *)
(* edges, viewport {0, 0, 1}.                                              *)
(***************************************************************************)
\* the item is a document with every field of PersistedGraph, well typed
conforms(item) ==
    /\ item # Undef
    /\ Val(item).kind = "object"
    /\ Val(item).version = Some(1)
    /\ IsSome(Val(item).nodes) /\ IsSome(Val(item).edges) /\ IsSome(Val(item).viewport)
    /\ \A i \in 1..Len(Val(Val(item).nodes)) :
          LET n == Val(Val(item).nodes)[i]
          IN IsSome(n.id) /\ IsSome(n.title) /\ IsSome(n.x) /\ IsSome(n.y)
    /\ \A k \in 1..Len(Val(Val(item).edges)) :
          LET e == Val(Val(item).edges)[k]
          IN IsSome(e.id) /\ IsSome(e.source) /\ IsSome(e.target)
    /\ LET v == Val(Val(item).viewport) IN IsSome(v.x) /\ IsSome(v.y) /\ IsSome(v.zoom)

startsFromSeed ==
    /\ last.found = Undef
    /\ LiveNodes = SeedNodes
    /\ edges = SeedEdges
    /\ last.loaded.viewport = DefaultViewport

C26_AnyMismatchStartsFromSeed ==
    (last.op = "mounted" /\ ~conforms(last.item)) => startsFromSeed

(***************************************************************************)
(* C26, amended: load returns no document exactly when nothing or the      *)
(* empty text is stored, the text is unparsable or no object, the version  *)
(* is not 1, or nodes or edges is no array, and the component then starts  *)
(* from the seed document.  Otherwise it returns a document: the node and  *)
(* edge entries whose required fields are well typed, in their order, and  *)
(* a missing or ill-typed viewport replaced by {0, 0, 1}.                  *)
(***************************************************************************)
noDocument(item) ==
    \/ item = Undef
    \/ Val(item).kind # "object"
    \/ Val(item).version # Some(1)
    \/ ~IsSome(Val(item).nodes)
    \/ ~IsSome(Val(item).edges)

C26_LoadFallsBackToSeed ==
    last.op = "mounted" =>
       IF noDocument(last.item) THEN startsFromSeed
       ELSE LET ns == SelectSeq(Val(Val(last.item).nodes),
                                LAMBDA n : IsSome(n.id) /\ IsSome(n.title)
                                           /\ IsSome(n.x) /\ IsSome(n.y))
                es == SelectSeq(Val(Val(last.item).edges),
                                LAMBDA e : IsSome(e.id) /\ IsSome(e.source) /\ IsSome(e.target))
            IN /\ last.found # Undef
               /\ Len(LiveNodes) = Len(ns)
               /\ \A i \in 1..Len(ns) :
                     /\ LiveNodes[i].id = Val(ns[i].id)
                     /\ LiveNodes[i].title = Val(ns[i].title)
                     /\ LiveNodes[i].x = Val(ns[i].x)
                     /\ LiveNodes[i].y = Val(ns[i].y)
               /\ Len(edges) = Len(es)
               /\ \A k \in 1..Len(es) :
                     edges[k] = [id |-> Val(es[k].id), source |-> Val(es[k].source),
                                 target |-> Val(es[k].target)]
               /\ ~IsSome(Val(last.item).viewport) => last.loaded.viewport = DefaultViewport

\* a document of version 2 was stored and the component shows the seed graph
C26_Witness ==
    /\ last.op = "mounted"
    /\ last.item # Undef
    /\ Val(last.item).version = Some(2)
    /\ IsSome(Val(last.item).nodes)
    /\ LiveNodes = SeedNodes
    /\ edges = SeedEdges

(***************************************************************************)
(* C27: persistence is write-through.  After every step, unless the last   *)
(* write failed, the stored item is the document {nodes, edges, viewport,  *)
(* version 1} of the live state; a stored document is replaced only by the *)
(* document of the live state; a write that fails is swallowed: it leaves  *)
(* the stored item as it was and reports nothing.                          *)
(***************************************************************************)
C27_WriteThrough ==
    [][ /\ ~localStorage'.failed =>
              localStorage'.item = stringifyGraph(LiveNodes', edges', viewport')
        /\ (localStorage.item # Undef /\ localStorage'.item # localStorage.item) =>
              localStorage'.item = stringifyGraph(LiveNodes', edges', viewport')
        /\ (localStorage'.quota < localStorage.quota) =>
              /\ localStorage'.item = localStorage.item
              /\ patError' = patError ]_vars

(***************************************************************************)
(* C28: in every reachable state the ids of the nodes are pairwise         *)
(* distinct and the ids of the edges are pairwise distinct.                *)
(***************************************************************************)
C28_IdsPairwiseDistinct ==
    /\ \A i, j \in 1..Len(nodes) : LiveNodes[i].id = LiveNodes[j].id => i = j
    /\ \A i, j \in 1..Len(edges) : edges[i].id = edges[j].id => i = j

(***************************************************************************)
(* C29: on an acyclic graph whose edges all join two of its nodes,         *)
(* auto-layout gives each node the layer that is the length of the longest *)
(* path ending at it (0 without an in-edge), so an edge always leads to a  *)
(* higher layer; left to right a node's x is its layer times spacingX and  *)
(* its y is its rank in the layer, by the y it had, times spacingY; top to *)
(* bottom the two axes are swapped.                                        *)
(***************************************************************************)
RECURSIVE longestPathTo(_, _)
longestPathTo(E, v) ==
    LET preds == {E[i].source : i \in {j \in 1..Len(E) : E[j].target = v}}
    IN IF preds = {} THEN 0
       ELSE 1 + MaxOf({longestPathTo(E, u) : u \in preds})

\* how many nodes of the layer of the i-th node come before it: those with a
\* smaller y, and those with the same y earlier in the array
rankInLayer(ns, E, i) ==
    Cardinality({j \in 1..Len(ns) :
                    /\ longestPathTo(E, ns[j].id) = longestPathTo(E, ns[i].id)
                    /\ \/ ns[j].y < ns[i].y
                       \/ ns[j].y = ns[i].y /\ j < i})

C29_LayoutLayersAreLongestPaths ==
    (/\ last.op = "apply"
     /\ Len(last.actions) = 1
     /\ last.actions[1].type = "auto_layout"
     /\ ~HasCycle(last.base.edges)
     /\ \A k \in 1..Len(last.base.edges) :
           /\ last.base.edges[k].source \in idsOf(last.base.nodes)
           /\ last.base.edges[k].target \in idsOf(last.base.nodes)) =>
        /\ \A k \in 1..Len(last.base.edges) :
              longestPathTo(last.base.edges, last.base.edges[k].target)
                 >= longestPathTo(last.base.edges, last.base.edges[k].source) + 1
        /\ \A i \in 1..Len(last.base.nodes) :
              LET l == longestPathTo(last.base.edges, last.base.nodes[i].id)
                  r == rankInLayer(last.base.nodes, last.base.edges, i)
              IN IF last.actions[1].direction = Some("TB")
                 THEN last.result.nodes[i].x = r * 320 /\ last.result.nodes[i].y = l * 160
                 ELSE last.result.nodes[i].x = l * 320 /\ last.result.nodes[i].y = r * 160

(***************************************************************************)
(* C30: in connect mode the click on a node, when no source is recorded,   *)
(* records that node as the source; the click on another node when a       *)
(* source is recorded attempts addEdge(source, clicked) and, accepted or    *)
(* rejected, clears the source and returns to select mode; the click on    *)
(* the source itself adds no edge.  (A click that ends a drag of the node   *)
(* is not a click in this sense.)                                          *)
(***************************************************************************)
C30_ConnectModeClicks ==
    [][ (/\ clickTarget # <<>>
         /\ clickTarget' = <<>>
         /\ lastMovedNodeIdRef # clickTarget
         /\ mode = "connect") =>
            /\ connectFrom = <<>> =>
                  /\ connectFrom' = clickTarget
                  /\ edges' = edges
                  /\ mode' = "connect"
            /\ (connectFrom # <<>> /\ connectFrom # clickTarget) =>
                  /\ last'.op = "addEdge"
                  /\ last'.source = connectFrom[1]
                  /\ last'.target = clickTarget[1]
                  /\ connectFrom' = <<>>
                  /\ mode' = "select"
                  /\ \/ ~last'.accepted /\ edges' = edges
                     \/ /\ last'.accepted
                        /\ Len(edges') = Len(edges) + 1
                        /\ SubSeq(edges', 1, Len(edges)) = edges
                        /\ edges'[Len(edges')].source = connectFrom[1]
                        /\ edges'[Len(edges')].target = clickTarget[1]
            /\ connectFrom = clickTarget => edges' = edges ]_vars
(***************************************************************************)
(* C31: pressing Escape, from any interaction state, leaves no pending     *)
(* connect source, mode select, an empty selection and the property editor *)
(* closed, and leaves nodes, edges, viewport and undo stack unchanged.     *)
(***************************************************************************)
C31_EscapeResetsInteraction ==
    [][last'.op = "escape" =>
          /\ connectFrom' = <<>>
          /\ mode' = "select"
          /\ selection' = NoSelection
          /\ editorOpen' = FALSE
          /\ LiveNodes' = LiveNodes
          /\ edges' = edges
          /\ viewport' = viewport
          /\ UndoEntries' = UndoEntries]_vars

\* Escape pressed with a connect source pending and the property editor open
C31_Witness ==
    /\ last.op = "escape"
    /\ last.connectFrom # <<>>
    /\ last.editorOpen
    /\ connectFrom = <<>>
    /\ mode = "select"
    /\ ~editorOpen

(***************************************************************************)
(* C32: in an agent batch, an add_node (add_edge) whose preferred id is    *)
(* not in use by any node (edge) of the working copy receives exactly that *)
(* id; if it is in use, it receives the preferred id with the smallest     *)
(* free suffix -2, -3, ...; and no node or edge that was there has its id  *)
(* changed or is overwritten.                                              *)
(***************************************************************************)
\* the node ids and the edges of the working copy after the k-th command
nodeIdsAfter(k) ==
    IF k < Len(last.log) THEN last.log[k + 1].nodeIds ELSE idsOf(last.result.nodes)

edgesAfter(k) ==
    IF k < Len(last.log) THEN last.log[k + 1].edges ELSE last.result.edges

edgeIdsOf(es) == {es[i].id : i \in 1..Len(es)}

\* the id the claim promises for the preferred id p over the ids in use
reconciled(p, inUse) ==
    IF p \notin inUse THEN p
    ELSE suffixed(p, CHOOSE i \in 2..(Cardinality(inUse) + 2) :
                       /\ suffixed(p, i) \notin inUse
                       /\ \A j \in 2..(i - 1) : suffixed(p, j) \in inUse)

C32_PreferredIdsReconciled ==
    last.op = "apply" =>
        \A k \in 1..Len(last.log) :
            LET e == last.log[k]
            IN (e.outcome = "applied" /\ truthy(e.act.id)) =>
                 /\ e.act.type = "add_node" =>
                       /\ nodeIdsAfter(k) \ e.nodeIds
                             = {reconciled(Val(e.act.id), e.nodeIds)}
                       /\ e.nodeIds \subseteq nodeIdsAfter(k)
                 /\ e.act.type = "add_edge" =>
                       /\ edgeIdsOf(edgesAfter(k)) \ edgeIdsOf(e.edges)
                             = {reconciled(Val(e.act.id), edgeIdsOf(e.edges))}
                       /\ SubSeq(edgesAfter(k), 1, Len(e.edges)) = e.edges

(***************************************************************************)
(* C33: after an agent batch in which at least one command had an effect,  *)
(* the notice left showing is the diff summary whose six counts (add,      *)
(* edit, move, delete, edge+, edge-) are the numbers of commands of each   *)
(* type that took effect, for a bare array and for an object with a        *)
(* message alike.                                                          *)
(***************************************************************************)
tookEffect(type) ==
    Cardinality({k \in 1..Len(last.log) :
                    last.log[k].outcome = "applied" /\ last.log[k].act.type = type})

diffSummary ==
    [kind |-> "applied",
     counts |-> << tookEffect("add_node"), tookEffect("update_node"), tookEffect("move_node"),
                   tookEffect("delete_node"), tookEffect("add_edge"),
                   tookEffect("delete_edge") >>]

C33_NoticeIsDiffSummary ==
    (/\ last.op \in {"apply", "reply"}
     /\ last.kind \in {"payload", "exception"}
     /\ "log" \in DOMAIN last
     /\ \E k \in 1..Len(last.log) : last.log[k].outcome = "applied")
        => toast = diffSummary

(***************************************************************************)
(* C34: an auto_layout command lays out the working copy, and when at      *)
(* least one command of the batch had an effect on the working copy -- an  *)
(* auto_layout that moves a node included, even as the only command -- the *)
(* working copy replaces the live state and an undo snapshot is pushed.    *)
(***************************************************************************)
\* the batch left the working copy different from what it was copied from
workingCopyChanged ==
    \/ \E k \in 1..Len(last.log) : last.log[k].outcome = "applied"
    \/ last.result.nodes # last.base.nodes
    \/ last.result.edges # last.base.edges

C34_EffectiveBatchIsCommitted ==
    (last.op = "apply" /\ workingCopyChanged) =>
        /\ LiveNodes = last.result.nodes
        /\ edges = last.result.edges
        /\ Len(undoStack) = Min2(last.stackLen + 1, 10)

(***************************************************************************)
(* C35: for a pointer gesture on a node (pointer-down, pointer-moves,      *)
(* pointer-up, then the click event) the click action is suppressed if and *)
(* only if the pointer was more than 4 px from where it went down at some  *)
(* move of the gesture, whether the click event or the zero-delay timer    *)
(* armed at pointer-up runs first.                                         *)
(***************************************************************************)
C35_ClickSuppressedIffDragged ==
    [][(last.op = "up" /\ clickTarget # <<>> /\ clickTarget' = <<>>) =>
          ((last'.op = "click" /\ last'.suppressed) <=> last.moved)]_vars

(***************************************************************************)
(* C36: in every reachable state every live edge has both its source and   *)
(* its target among the live nodes (no dangling edge), whatever the        *)
(* interleaving of connect clicks, deletions, agent batches, imports and   *)
(* undos.                                                                  *)
(***************************************************************************)
C36_NoDanglingEdge ==
    \A k \in 1..Len(edges) :
        edges[k].source \in NodeIds /\ edges[k].target \in NodeIds

(***************************************************************************)
(* C37: a pending connect source exists only while the mode is connect:    *)
(* in every reachable state where the mode is select, connectFrom is none  *)
(* (also after the toolbar toggled the mode off), so that the first click  *)
(* after entering connect mode picks a source.                             *)
(***************************************************************************)
C37_SourceOnlyInConnectMode ==
    mode = "select" => connectFrom = <<>>

(***************************************************************************)
(* C38: the live graph is never a multigraph: in every reachable state no  *)
(* two distinct edges have the same (source, target) pair, whether edges   *)
(* come from manual connect, agent add_edge commands or import.            *)
(***************************************************************************)
C38_NoParallelEdges ==
    \A i, j \in 1..Len(edges) :
        (edges[i].source = edges[j].source /\ edges[i].target = edges[j].target) => i = j

(***************************************************************************)
(* C39: the cycle check and auto-layout terminate on every finite input,   *)
(* edge arrays that hold a cycle, repeated edges or dangling edges         *)
(* included, and on such input auto-layout returns every input node        *)
(* exactly once.  Each run reaches its end and stays there; createsCycle   *)
(* ends with the value of its search, auto-layout with an array that holds *)
(* the input nodes one by one, in place, only x and y set anew.            *)
(***************************************************************************)
returnsEveryNodeOnce ==
    /\ Len(probe.result) = Len(probe.nodes)
    /\ \A i \in 1..Len(probe.nodes) :
          probe.result[i] = [probe.nodes[i] EXCEPT !.x = probe.result[i].x,
                                                   !.y = probe.result[i].y]

====
